---- MODULE Spec2Model ----
(***************************************************************************)
(* A model of the PostScript interpreter of src/postscript_interpreter:    *)
(* the lexer (lexer.py), and the two-stack execution engine with its       *)
(* primitive operators (interpreter.py).                                   *)
(*                                                                         *)
(* Python objects with identity (lists, dicts) live in `heap`; a value on  *)
(* the operand stack that is a list, a Procedure or a dict holds the index *)
(* of its heap cell.  The Python call stack of the engine is `frames`: one *)
(* frame per active _execute_procedure call and per active loop or         *)
(* `stopped` operator.  A Python exception raised by an operator unwinds   *)
(* `frames` to the frame whose `except` clause catches it, or leaves `run` *)
(* and becomes its `outcome`.                                              *)
(***************************************************************************)
EXTENDS Integers, Sequences, FiniteSets, TLC

VARIABLES
    operand_stack,      \* Interpreter.operand_stack: sequence of values, top last
    dictionary_stack,   \* Interpreter.dictionary_stack: heap indices, top last
    heap,               \* the Python lists and dicts that exist, by identity
    frames,             \* active _execute_procedure / loop / stopped calls, innermost last
    outcome,            \* what the host sees of run: "idle", "running", "ok" or an exception class
    last,               \* the step last taken and the exception it raised (history)
    palette,            \* which family of sources the host draws from
    program,            \* the parsed objects of the source, where it is a given one
    nobjects,           \* how many top-level objects run has executed so far
    source,             \* Lexer.source
    pos,                \* Lexer.pos
    token,              \* the token tokenize yielded last
    ntokens,            \* how many tokens tokenize has yielded
    tokens              \* Parser.tokens: the tokens yielded, in order

vars == <<operand_stack, dictionary_stack, heap, frames, outcome, last, palette,
          program, nobjects, source, pos, token, ntokens, tokens>>

interp_vars == <<operand_stack, dictionary_stack, heap, frames, outcome, last,
                 palette, program, nobjects>>
lexer_vars == <<source, pos, token, ntokens, tokens>>

---------------------------------------------------------------------------
(* Bounds of the model.                                                    *)

MaxStack == 5
MaxHeap == 9
MaxFrames == 7
MaxDictStack == 3
MaxInt == 3
MaxObjects == 6
MaxTokens == 5
MaxSourceLen == 3

---------------------------------------------------------------------------
(* Values.  Every value is a record of the same shape: t is the Python     *)
(* type, i an integer payload (the number, 0/1 for a bool, the heap index  *)
(* of a list, Procedure body or dict), s a string payload (a name or the   *)
(* characters of a str).                                                   *)

Integer(n) == [t |-> "int", i |-> n, s |-> ""]
Bool(b) == [t |-> "bool", i |-> IF b THEN 1 ELSE 0, s |-> ""]
Str(x) == [t |-> "str", i |-> 0, s |-> x]
LiteralName(n) == [t |-> "LiteralName", i |-> 0, s |-> n]
ExecutableName(n) == [t |-> "ExecutableName", i |-> 0, s |-> n]
Procedure(r) == [t |-> "Procedure", i |-> r, s |-> ""]
List(r) == [t |-> "list", i |-> r, s |-> ""]
Dict(r) == [t |-> "dict", i |-> r, s |-> ""]
Operator(n) == [t |-> "operator", i |-> 0, s |-> n]
None == [t |-> "None", i |-> 0, s |-> ""]

(* A heap cell: a Python list (vals), or a Python dict: keys[k] is bound   *)
(* to vals[k], in insertion order, and index maps each str key to its      *)
(* position (the hash lookup of a name).                                   *)
NoIndex == [n \in {} |-> 0]
ListObj(vs) == [kind |-> "list", index |-> NoIndex, keys |-> <<>>, vals |-> vs]
DictObj(ks, vs) ==
    [kind |-> "dict",
     index |-> [n \in {ks[k].s : k \in {j \in 1..Len(ks) : ks[j].t = "str"}} |->
                  CHOOSE k \in 1..Len(ks) : ks[k] = Str(n)],
     keys |-> ks, vals |-> vs]

Front(s) == SubSeq(s, 1, Len(s) - 1)
Top(s) == s[Len(s)]

---------------------------------------------------------------------------
(* The system dictionary built by _init_system_dict, in insertion order.   *)

SystemNames ==
    << "add", "sub", "mul", "div", "idiv", "mod", "neg", "abs", "ceiling",
       "floor", "round", "truncate", "sqrt",
       "pop", "exch", "dup", "copy", "index", "roll", "clear", "count",
       "mark", "cleartomark",
       "eq", "ne", "lt", "le", "gt", "ge",
       "and", "or", "not", "xor", "true", "false",
       "if", "ifelse", "for", "repeat", "loop", "exit", "exec", "stopped",
       "stop",
       "def", "load", "store", "begin", "end", "dict", "currentdict",
       "array", "length", "get", "put", "getinterval", "putinterval",
       "forall", "aload", "astore",
       "string", "cvs",
       "type", "cvx", "cvlit",
       "print", "=", "==", "pstack" >>

SystemBinding(n) ==
    IF n = "true" THEN Bool(TRUE)
    ELSE IF n = "false" THEN Bool(FALSE)
    ELSE Operator(n)

_init_system_dict ==
    DictObj([k \in 1..Len(SystemNames) |-> Str(SystemNames[k])],
            [k \in 1..Len(SystemNames) |-> SystemBinding(SystemNames[k])])

(* Heap indices of the two dictionaries the constructor creates.           *)
SystemDictRef == 1
UserDictRef == 2

---------------------------------------------------------------------------
(* Python dict operations on a heap cell.                                  *)

\* Python's == on two keys other than str: numbers by value (True == 1)
KeyEq(a, b) == a = b \/ (a.t \in {"int", "bool"} /\ b.t \in {"int", "bool"} /\ a.i = b.i)

\* the position of key k in dict cell d, 0 when `k in d` is false
KeyIndex(d, k) ==
    IF k.t = "str" THEN (IF k.s \in DOMAIN d.index THEN d.index[k.s] ELSE 0)
    ELSE IF \E j \in 1..Len(d.keys) : KeyEq(d.keys[j], k)
    THEN CHOOSE j \in 1..Len(d.keys) : KeyEq(d.keys[j], k)
    ELSE 0

\* d[k] = v
DictSet(d, k, v) ==
    LET j == KeyIndex(d, k) IN
    IF j # 0 THEN [d EXCEPT !.vals[j] = v]
    ELSE [d EXCEPT !.keys = Append(d.keys, k),
                   !.vals = Append(d.vals, v),
                   !.index = IF k.t = "str" THEN (k.s :> (Len(d.keys) + 1)) @@ d.index
                             ELSE d.index]

\* a faulty variant of _lookup: the dictionary stack searched from its bottom
RECURSIVE _lookup_bottom_up(_, _, _)
_lookup_bottom_up(h, ds, name) ==
    IF ds = <<>> THEN None
    ELSE IF name \in DOMAIN h[ds[1]].index THEN h[ds[1]].vals[h[ds[1]].index[name]]
    ELSE _lookup_bottom_up(h, SubSeq(ds, 2, Len(ds)), name)

\* Interpreter._lookup: the binding of name in the topmost dictionary of ds
\* that has it, None when no dictionary has it
RECURSIVE _lookup(_, _, _)
_lookup(h, ds, name) ==
    IF ds = <<>> THEN None
    ELSE IF name \in DOMAIN h[Top(ds)].index THEN h[Top(ds)].vals[h[Top(ds)].index[name]]
    ELSE _lookup(h, Front(ds), name)

---------------------------------------------------------------------------
(* Popping operands.  A machine m is the operand stack being consumed, the *)
(* exception raised so far, and the operands popped so far (in pop order). *)

Machine(os) == [os |-> os, exc |-> "none", got |-> <<>>]

IsAny(v) == TRUE
IsNumber(v) == v.t \in {"int", "bool"}          \* isinstance(obj, (int, float)): a bool is an int
IsInt(v) == v.t = "int"                         \* int and not bool
IsBool(v) == v.t = "bool"
IsProcedure(v) == v.t = "Procedure"
IsLiteralName(v) == v.t = "LiteralName"

\* _pop followed by the isinstance test of the _pop_* helpers: an empty
\* stack raises before anything is popped, a value of the wrong type is popped
\* and then raises
PopIf(m, Ok(_)) ==
    IF m.exc # "none" THEN m
    ELSE IF m.os = <<>> THEN [m EXCEPT !.exc = "InterpreterError"]
    ELSE LET v == Top(m.os) IN
         IF Ok(v) THEN [os |-> Front(m.os), exc |-> "none", got |-> Append(m.got, v)]
         ELSE [os |-> Front(m.os), exc |-> "InterpreterError", got |-> m.got]

_pop(m) == PopIf(m, IsAny)
_pop_number(m) == PopIf(m, IsNumber)
_pop_int(m) == PopIf(m, IsInt)
_pop_bool(m) == PopIf(m, IsBool)
_pop_procedure(m) == PopIf(m, IsProcedure)
_pop_literal_name(m) == PopIf(m, IsLiteralName)

---------------------------------------------------------------------------
(* Frames of the Python call stack.                                        *)
(*   "proc"    _execute_procedure iterating over list heap[ref]; pc is the *)
(*             position of the next element (the list iterator's index)    *)
(*   "exec"    _op_exec about to call _execute_object(val)                 *)
(*   "for"     _op_for: val is `current`, inc and lim its operands, ref    *)
(*             the body of proc; pc = 1 once the body has been called;     *)
(*             first is `initial` and cur counts the calls of the body     *)
(*             (history, read by no operator)                              *)
(*   "repeat"  _op_repeat: cur iterations started out of lim               *)
(*   "loop"    _op_loop                                                    *)
(*   "forall"  _op_forall over val: pc elements taken by the iterator; lim *)
(*             the size of the dict when its iterator was made             *)
(*   "stopped" _op_stopped inside its try block                            *)

Frame(kind, ref) ==
    [kind |-> kind, ref |-> ref, pc |-> 0, val |-> None, first |-> None,
     cur |-> 0, inc |-> 0, lim |-> 0]

ProcFrame(ref) == [Frame("proc", ref) EXCEPT !.pc = 1]

\* the operators whose try block has `except ExitException: pass`
LoopKinds == {"for", "repeat", "loop", "forall"}

\* a faulty variant of Catches: the loop operators catch StopException as well
CatchesStopInLoops(f, exc) ==
    \/ f.kind \in LoopKinds
    \/ exc = "StopException" /\ f.kind = "stopped"

\* a faulty variant of Catches: _op_stopped catches ExitException as well
CatchesExitInStopped(f, exc) ==
    \/ exc = "ExitException" /\ f.kind \in LoopKinds
    \/ f.kind = "stopped"

\* does the except clause of the operator of frame f catch exception exc
Catches(f, exc) ==
    \/ exc = "ExitException" /\ f.kind \in LoopKinds
    \/ exc = "StopException" /\ f.kind = "stopped"

\* a faulty variant of Catcher: the outermost catching frame
CatcherOutermost(fr, exc) ==
    IF \E j \in 1..Len(fr) : Catches(fr[j], exc)
    THEN CHOOSE j \in 1..Len(fr) :
            /\ Catches(fr[j], exc)
            /\ \A k \in 1..(j - 1) : ~Catches(fr[k], exc)
    ELSE 0

\* the innermost frame whose except clause catches exc, 0 when none does
Catcher(fr, exc) ==
    IF \E j \in 1..Len(fr) : Catches(fr[j], exc)
    THEN CHOOSE j \in 1..Len(fr) :
            /\ Catches(fr[j], exc)
            /\ \A k \in (j + 1)..Len(fr) : ~Catches(fr[k], exc)
    ELSE 0

\* Python's propagation of exception exc raised with call stack fr and
\* operand stack os: the catching operator returns (its frame and every frame
\* above it are gone; _op_stopped appends True), or the exception leaves run
Unwind(fr, os, exc) ==
    IF exc = "none" THEN [frames |-> fr, os |-> os, outcome |-> "running"]
    ELSE LET j == Catcher(fr, exc) IN
         IF j = 0 THEN [frames |-> <<>>, os |-> os, outcome |-> exc]
         ELSE [frames |-> SubSeq(fr, 1, j - 1),
               os |-> IF fr[j].kind = "stopped" THEN Append(os, Bool(TRUE)) ELSE os,
               outcome |-> "running"]

---------------------------------------------------------------------------
(* Parsed objects.  Parser._parse_object returns a tree: a scalar, or a    *)
(* Procedure / list holding the parsed objects of its body.  Build creates *)
(* the Python objects of such a tree: one new heap cell per `{...}` and    *)
(* per `[...]`, inner ones first.                                          *)

PInt(n) == [t |-> "int", i |-> n, s |-> "", body |-> <<>>]
PLit(n) == [t |-> "LiteralName", i |-> 0, s |-> n, body |-> <<>>]
PName(n) == [t |-> "ExecutableName", i |-> 0, s |-> n, body |-> <<>>]
PProc(b) == [t |-> "Procedure", i |-> 0, s |-> "", body |-> b]
PList(b) == [t |-> "list", i |-> 0, s |-> "", body |-> b]
PStr(x) == [t |-> "str", i |-> 0, s |-> x, body |-> <<>>]

RECURSIVE Build(_, _), BuildAll(_, _)
Build(h, a) ==
    IF a.t \in {"Procedure", "list"}
    THEN LET r == BuildAll(h, a.body) IN
         [heap |-> Append(r.heap, ListObj(r.vals)),
          val |-> [t |-> a.t, i |-> Len(r.heap) + 1, s |-> ""]]
    ELSE [heap |-> h, val |-> [t |-> a.t, i |-> a.i, s |-> a.s]]
BuildAll(h, as) ==
    IF as = <<>> THEN [heap |-> h, vals |-> <<>>]
    ELSE LET r == BuildAll(h, Front(as))
             e == Build(r.heap, Top(as))
         IN [heap |-> e.heap, vals |-> Append(r.vals, e.val)]

(* The top-level objects the host's sources are made of.  A source is any  *)
(* finite sequence of them; run executes it object by object, so the model *)
(* draws the next object when run reaches it.                              *)

DictSources ==
    << PInt(1), PLit("add"), PName("add"), PName("pop"),
       PName("dict"), PName("begin"), PName("end"), PName("def"),
       PName("store"), PName("currentdict"), PName("put") >>

TopObjects == IF palette = "dict" THEN DictSources ELSE program

---------------------------------------------------------------------------
(* The object _execute_object is called with next.                         *)

InProcedure ==
    /\ frames # <<>>
    /\ Top(frames).kind = "proc"
    /\ Top(frames).pc <= Len(heap[Top(frames).ref].vals)

\* k = 0: the next element of the procedure body being executed, or the
\* operand of exec; k > 0: the k-th top-level object, which run executes any
\* of where the source is drawn freely, and in order where it is given
Slots == 0..Len(TopObjects)

Fetchable(k) ==
    /\ outcome = "running"
    /\ \/ frames = <<>> /\ k > 0 /\ palette = "dict" /\ nobjects < MaxObjects
       \/ frames = <<>> /\ k = nobjects + 1 /\ palette = "control"
       \/ k = 0 /\ InProcedure
       \/ k = 0 /\ frames # <<>> /\ Top(frames).kind = "exec"

Fetch(k) ==
    IF frames = <<>> THEN Build(heap, TopObjects[k])
    ELSE IF Top(frames).kind = "exec" THEN [heap |-> heap, val |-> Top(frames).val]
    ELSE [heap |-> heap, val |-> heap[Top(frames).ref].vals[Top(frames).pc]]

\* the call stack once the object is fetched: the body's iterator has
\* advanced; _op_exec has made its call
Advance ==
    IF frames = <<>> THEN frames
    ELSE IF Top(frames).kind = "exec" THEN Front(frames)
    ELSE [frames EXCEPT ![Len(frames)].pc = @ + 1]

\* the binding of the executable name fetched
Resolved(k) == _lookup(heap, dictionary_stack, Fetch(k).val.s)

\* the object fetched is an executable name bound to the built-in `name`
Invokes(k, name) ==
    /\ Fetchable(k)
    /\ Fetch(k).val.t = "ExecutableName"
    /\ Resolved(k) = Operator(name)

InBounds(h, fr, os, ds) ==
    /\ Len(os) <= MaxStack
    /\ Len(h) <= MaxHeap
    /\ Len(fr) <= MaxFrames
    /\ Len(ds) <= MaxDictStack
    /\ \A j \in 1..Len(os) : os[j].t = "int" => os[j].i \in (-MaxInt)..MaxInt

\* the state after step `op` has left heap h, call stack fr, operand stack os
\* and dictionary stack ds, and raised exc ("none": returned)
Finish(op, h, fr, os, ds, exc) ==
    LET u == Unwind(fr, os, exc) IN
    /\ InBounds(h, u.frames, u.os, ds)
    /\ heap' = h
    /\ frames' = u.frames
    /\ operand_stack' = u.os
    /\ dictionary_stack' = ds
    /\ outcome' = u.outcome
    /\ last' = [op |-> op, exc |-> exc]
    /\ nobjects' = IF frames = <<>> THEN nobjects + 1 ELSE nobjects
    /\ UNCHANGED <<palette, program, source, pos, token, ntokens, tokens>>

\* an operator that only consumes and produces operands
Returns(op, os) == Finish(op, heap, Advance, os, dictionary_stack, "none")
Raises(op, os, exc) == Finish(op, heap, Advance, os, dictionary_stack, exc)

---------------------------------------------------------------------------
(* The host.                                                               *)

\* a faulty variant of Run: each call starts from the state of a new
\* interpreter's stacks
RunOnClearedStacks ==
    /\ outcome # "running"
    /\ palette # "lexer"
    /\ IF palette = "dict" THEN nobjects < MaxObjects ELSE nobjects < Len(program)
    /\ outcome' = "running"
    /\ last' = [op |-> "run", exc |-> "none"]
    /\ operand_stack' = <<>>
    /\ dictionary_stack' = <<SystemDictRef, UserDictRef>>
    /\ UNCHANGED <<heap, frames, palette, program, nobjects>>
    /\ UNCHANGED lexer_vars

\* run(source) is called: the source parsed, the loop over its objects begins
Run ==
    /\ outcome # "running"
    /\ palette # "lexer"
    /\ IF palette = "dict" THEN nobjects < MaxObjects ELSE nobjects < Len(program)
    /\ outcome' = "running"
    /\ last' = [op |-> "run", exc |-> "none"]
    /\ UNCHANGED <<operand_stack, dictionary_stack, heap, frames, palette, program, nobjects>>
    /\ UNCHANGED lexer_vars

\* the loop of run is through its objects: run returns
RunReturn ==
    /\ outcome = "running"
    /\ frames = <<>>
    /\ outcome' = "ok"
    /\ last' = [op |-> "return", exc |-> "none"]
    /\ UNCHANGED <<operand_stack, dictionary_stack, heap, frames, palette, program, nobjects>>
    /\ UNCHANGED lexer_vars

---------------------------------------------------------------------------
(* _execute_object.                                                        *)

\* int, str, bool, list, LiteralName, Procedure and everything else that is
\* no ExecutableName: pushed
PushObject ==
    \E k \in Slots :
    /\ Fetchable(k)
    /\ Fetch(k).val.t # "ExecutableName"
    /\ Finish("push", Fetch(k).heap, Advance, Append(operand_stack, Fetch(k).val),
              dictionary_stack, "none")

\* an ExecutableName: _lookup gives None
Undefined ==
    \E k \in Slots :
    /\ Fetchable(k)
    /\ Fetch(k).val.t = "ExecutableName"
    /\ Resolved(k) = None
    /\ Raises("undefined", operand_stack, "InterpreterError")

\* an ExecutableName bound to a Procedure: _execute_procedure(value)
CallProcedure ==
    \E k \in Slots :
    /\ Fetchable(k)
    /\ Fetch(k).val.t = "ExecutableName"
    /\ Resolved(k).t = "Procedure"
    /\ Finish("call", heap, Append(Advance, ProcFrame(Resolved(k).i)), operand_stack,
              dictionary_stack, "none")

\* an ExecutableName bound to a value that is neither callable nor a Procedure
PushValue ==
    \E k \in Slots :
    /\ Fetchable(k)
    /\ Fetch(k).val.t = "ExecutableName"
    /\ Resolved(k).t \notin {"None", "operator", "Procedure"}
    /\ Returns("value", Append(operand_stack, Resolved(k)))

\* _execute_procedure has run through proc.body: it returns to its caller
ProcReturn ==
    /\ outcome = "running"
    /\ frames # <<>>
    /\ Top(frames).kind = "proc"
    /\ Top(frames).pc > Len(heap[Top(frames).ref].vals)
    /\ Finish("procreturn", heap, Front(frames), operand_stack, dictionary_stack, "none")

---------------------------------------------------------------------------
(* Stack and arithmetic operators.                                         *)

_op_pop ==
    \E k \in Slots :
    /\ Invokes(k, "pop")
    /\ LET m == _pop(Machine(operand_stack)) IN
       IF m.exc # "none" THEN Raises("pop", m.os, m.exc)
       ELSE Returns("pop", m.os)

_op_add ==
    \E k \in Slots :
    /\ Invokes(k, "add")
    /\ LET m == _pop_number(_pop_number(Machine(operand_stack))) IN
       IF m.exc # "none" THEN Raises("add", m.os, m.exc)
       ELSE Returns("add", Append(m.os, Integer(m.got[2].i + m.got[1].i)))

Abs(n) == IF n < 0 THEN -n ELSE n

\* Python's a // b on ints: the quotient rounded toward minus infinity
FloorDiv(a, b) ==
    LET x == IF b > 0 THEN a ELSE -a
        y == Abs(b)
    IN IF x >= 0 THEN x \div y ELSE -((-x + y - 1) \div y)

\* a faulty variant of PyMod: the remainder of the division truncated toward
\* zero, which has the sign of a
RemTruncated(a, b) ==
    IF a >= 0 THEN a % Abs(b) ELSE -((-a) % Abs(b))

\* Python's a % b on ints: the remainder that has the sign of b
PyMod(a, b) ==
    LET x == IF b > 0 THEN a ELSE -a
        y == Abs(b)
        r == IF x >= 0 THEN x % y ELSE (y - ((-x) % y)) % y
    IN IF b > 0 THEN r ELSE -r

_op_idiv ==
    \E k \in Slots :
    /\ Invokes(k, "idiv")
    /\ LET m == _pop_int(_pop_int(Machine(operand_stack))) IN
       IF m.exc # "none" THEN Raises("idiv", m.os, m.exc)
       ELSE LET b == m.got[1].i
                a == m.got[2].i
            IN IF b = 0 THEN Raises("idiv", m.os, "InterpreterError")
               ELSE Returns("idiv", Append(m.os, Integer(FloorDiv(a, b))))

_op_mod ==
    \E k \in Slots :
    /\ Invokes(k, "mod")
    /\ LET m == _pop_int(_pop_int(Machine(operand_stack))) IN
       IF m.exc # "none" THEN Raises("mod", m.os, m.exc)
       ELSE LET b == m.got[1].i
                a == m.got[2].i
            IN IF b = 0 THEN Raises("mod", m.os, "InterpreterError")
               ELSE Returns("mod", Append(m.os, Integer(PyMod(a, b))))

\* a faulty variant of Rolled: the rotation in the other direction
RolledUp(items, j) ==
    LET n == Len(items)
        r == PyMod(j, n)
    IN SubSeq(items, r + 1, n) \o SubSeq(items, 1, r)

\* items[-j:] + items[:-j] of _op_roll, after j = j % n
Rolled(items, j) ==
    LET n == Len(items)
        r == PyMod(j, n)
    IN IF r = 0 THEN items
       ELSE SubSeq(items, n - r + 1, n) \o SubSeq(items, 1, n - r)

_op_roll ==
    \E k \in Slots :
    /\ Invokes(k, "roll")
    /\ LET m == _pop_int(_pop_int(Machine(operand_stack))) IN
       IF m.exc # "none" THEN Raises("roll", m.os, m.exc)
       ELSE LET j == m.got[1].i
                n == m.got[2].i
                depth == Len(m.os)
            IN IF n < 0 THEN Raises("roll", m.os, "InterpreterError")
               ELSE IF n = 0 \/ j = 0 THEN Returns("roll", m.os)
               ELSE IF n > depth THEN Raises("roll", m.os, "InterpreterError")
               ELSE Returns("roll", SubSeq(m.os, 1, depth - n)
                                    \o Rolled(SubSeq(m.os, depth - n + 1, depth), j))

---------------------------------------------------------------------------
(* Dictionary operators.                                                   *)

\* a faulty variant of _op_def: the binding goes to the user dictionary
\* whatever is on top of the dictionary stack
_op_def_in_userdict ==
    \E k \in Slots :
    /\ Invokes(k, "def")
    /\ LET m == _pop_literal_name(_pop(Machine(operand_stack))) IN
       IF m.exc # "none" THEN Raises("def", m.os, m.exc)
       ELSE LET value == m.got[1]
                key == m.got[2].s
            IN Finish("def", [heap EXCEPT ![UserDictRef] = DictSet(@, Str(key), value)],
                      Advance, m.os, dictionary_stack, "none")

_op_def ==
    \E k \in Slots :
    /\ Invokes(k, "def")
    /\ LET m == _pop_literal_name(_pop(Machine(operand_stack))) IN
       IF m.exc # "none" THEN Raises("def", m.os, m.exc)
       ELSE LET value == m.got[1]
                key == m.got[2].s
                top == Top(dictionary_stack)
            IN Finish("def", [heap EXCEPT ![top] = DictSet(@, Str(key), value)],
                      Advance, m.os, dictionary_stack, "none")

\* a faulty variant of StoreTarget: only the top of ds is looked at
StoreTargetTop(h, ds, key) ==
    IF ds # <<>> /\ KeyIndex(h[Top(ds)], Str(key)) # 0 THEN Top(ds) ELSE 0

\* the topmost dictionary of ds that has key, 0 when none has it
RECURSIVE StoreTarget(_, _, _)
StoreTarget(h, ds, key) ==
    IF ds = <<>> THEN 0
    ELSE IF KeyIndex(h[Top(ds)], Str(key)) # 0 THEN Top(ds)
    ELSE StoreTarget(h, Front(ds), key)

_op_store ==
    \E k \in Slots :
    /\ Invokes(k, "store")
    /\ LET m == _pop_literal_name(_pop(Machine(operand_stack))) IN
       IF m.exc # "none" THEN Raises("store", m.os, m.exc)
       ELSE LET value == m.got[1]
                key == m.got[2].s
                found == StoreTarget(heap, dictionary_stack, key)
                d == IF found # 0 THEN found ELSE Top(dictionary_stack)
            IN Finish("store", [heap EXCEPT ![d] = DictSet(@, Str(key), value)],
                      Advance, m.os, dictionary_stack, "none")

_op_begin ==
    \E k \in Slots :
    /\ Invokes(k, "begin")
    /\ LET m == _pop(Machine(operand_stack)) IN
       IF m.exc # "none" THEN Raises("begin", m.os, m.exc)
       ELSE IF m.got[1].t # "dict" THEN Raises("begin", m.os, "InterpreterError")
       ELSE Finish("begin", heap, Advance, m.os,
                   Append(dictionary_stack, m.got[1].i), "none")

\* a faulty variant of _op_end: the user dictionary may be popped
_op_end_below_two ==
    \E k \in Slots :
    /\ Invokes(k, "end")
    /\ IF Len(dictionary_stack) < 2
       THEN Raises("end", operand_stack, "InterpreterError")
       ELSE Finish("end", heap, Advance, operand_stack, Front(dictionary_stack), "none")

_op_end ==
    \E k \in Slots :
    /\ Invokes(k, "end")
    /\ IF Len(dictionary_stack) <= 2
       THEN Raises("end", operand_stack, "InterpreterError")
       ELSE Finish("end", heap, Advance, operand_stack, Front(dictionary_stack), "none")

_op_dict ==
    \E k \in Slots :
    /\ Invokes(k, "dict")
    /\ LET m == _pop_int(Machine(operand_stack)) IN
       IF m.exc # "none" THEN Raises("dict", m.os, m.exc)
       ELSE Finish("dict", Append(heap, DictObj(<<>>, <<>>)), Advance,
                   Append(m.os, Dict(Len(heap) + 1)), dictionary_stack, "none")

_op_currentdict ==
    \E k \in Slots :
    /\ Invokes(k, "currentdict")
    /\ Returns("currentdict", Append(operand_stack, Dict(Top(dictionary_stack))))

\* a key Python can hash: a dataclass with eq and no frozen, a list and a
\* dict are unhashable
Hashable(v) == v.t \notin {"LiteralName", "ExecutableName", "Procedure", "list", "dict"}

_op_put ==
    \E k \in Slots :
    /\ Invokes(k, "put")
    /\ LET m == _pop(_pop(_pop(Machine(operand_stack)))) IN
       IF m.exc # "none" THEN Raises("put", m.os, m.exc)
       ELSE LET value == m.got[1]
                index == m.got[2]
                obj == m.got[3]
            IN IF obj.t = "list"
               THEN IF ~IsNumber(index) THEN Raises("put", m.os, "InterpreterError")
                    ELSE IF index.i < 0 \/ index.i >= Len(heap[obj.i].vals)
                    THEN Raises("put", m.os, "InterpreterError")
                    ELSE Finish("put", [heap EXCEPT ![obj.i].vals[index.i + 1] = value],
                                Advance, m.os, dictionary_stack, "none")
               ELSE IF obj.t = "dict"
               THEN IF ~Hashable(index) THEN Raises("put", m.os, "TypeError")
                    ELSE Finish("put", [heap EXCEPT ![obj.i] = DictSet(@, index, value)],
                                Advance, m.os, dictionary_stack, "none")
               ELSE Raises("put", m.os, "InterpreterError")

---------------------------------------------------------------------------
(* Control operators.  An operator that calls _execute_procedure pushes    *)
(* the frame of that call; a loop operator pushes its own frame and calls  *)
(* the body from its iteration step.                                       *)

_op_if ==
    \E k \in Slots :
    /\ Invokes(k, "if")
    /\ LET m == _pop_bool(_pop_procedure(Machine(operand_stack))) IN
       IF m.exc # "none" THEN Raises("if", m.os, m.exc)
       ELSE LET proc == m.got[1]
                cond == m.got[2]
            IN Finish("if", heap,
                      IF cond.i = 1 THEN Append(Advance, ProcFrame(proc.i)) ELSE Advance,
                      m.os, dictionary_stack, "none")

_op_ifelse ==
    \E k \in Slots :
    /\ Invokes(k, "ifelse")
    /\ LET m == _pop_bool(_pop_procedure(_pop_procedure(Machine(operand_stack)))) IN
       IF m.exc # "none" THEN Raises("ifelse", m.os, m.exc)
       ELSE LET false_proc == m.got[1]
                true_proc == m.got[2]
                cond == m.got[3]
            IN Finish("ifelse", heap,
                      Append(Advance,
                             ProcFrame(IF cond.i = 1 THEN true_proc.i ELSE false_proc.i)),
                      m.os, dictionary_stack, "none")

\* _op_for up to its try block: the operands popped, current = initial
_op_for ==
    \E k \in Slots :
    /\ Invokes(k, "for")
    /\ LET m == _pop_number(_pop_number(_pop_number(
                    _pop_procedure(Machine(operand_stack))))) IN
       IF m.exc # "none" THEN Raises("for", m.os, m.exc)
       ELSE LET proc == m.got[1]
                limit == m.got[2]
                increment == m.got[3]
                initial == m.got[4]
            IN Finish("for", heap,
                      Append(Advance, [Frame("for", proc.i) EXCEPT
                                          !.val = initial, !.first = initial,
                                          !.inc = increment.i, !.lim = limit.i]),
                      m.os, dictionary_stack, "none")

\* no for loop over the model's integers with a non-zero increment has more
\* turns than this
MaxIter == 2 * MaxInt + 2

\* a faulty variant of ForContinues: the limit itself is left out
ForContinuesStrict(current, increment, limit) ==
    IF increment > 0 THEN current < limit ELSE current > limit

\* the test of the while loop of _op_for on `current`
ForContinues(current, increment, limit) ==
    IF increment > 0 THEN current <= limit ELSE current >= limit

\* one turn of the while loop of _op_for: `current += increment` when the
\* body has returned, the test, and then the push of current and the call of
\* the body, or the end of the loop
ForIter ==
    /\ outcome = "running"
    /\ frames # <<>>
    /\ Top(frames).kind = "for"
    /\ LET f == Top(frames)
           current == IF f.pc = 1 THEN Integer(f.val.i + f.inc) ELSE f.val
       IN IF ForContinues(current.i, f.inc, f.lim)
          THEN f.cur < MaxIter /\
               Finish("for_iter", heap,
                      Append([frames EXCEPT ![Len(frames)] =
                                 [f EXCEPT !.val = current, !.pc = 1, !.cur = @ + 1]],
                             ProcFrame(f.ref)),
                      Append(operand_stack, current), dictionary_stack, "none")
          ELSE Finish("for_end", heap, Front(frames), operand_stack, dictionary_stack, "none")

_op_repeat ==
    \E k \in Slots :
    /\ Invokes(k, "repeat")
    /\ LET m == _pop_int(_pop_procedure(Machine(operand_stack))) IN
       IF m.exc # "none" THEN Raises("repeat", m.os, m.exc)
       ELSE LET proc == m.got[1]
                count == m.got[2]
            IN IF count.i < 0 THEN Raises("repeat", m.os, "InterpreterError")
               ELSE Finish("repeat", heap,
                           Append(Advance, [Frame("repeat", proc.i) EXCEPT !.lim = count.i]),
                           m.os, dictionary_stack, "none")

\* a faulty variant of RepeatIter: range(count + 1)
RepeatIterOneMore ==
    /\ outcome = "running"
    /\ frames # <<>>
    /\ Top(frames).kind = "repeat"
    /\ LET f == Top(frames) IN
       IF f.cur <= f.lim
       THEN Finish("repeat_iter", heap,
                   Append([frames EXCEPT ![Len(frames)].cur = @ + 1], ProcFrame(f.ref)),
                   operand_stack, dictionary_stack, "none")
       ELSE Finish("repeat_end", heap, Front(frames), operand_stack, dictionary_stack, "none")

\* one turn of `for _ in range(count)`
RepeatIter ==
    /\ outcome = "running"
    /\ frames # <<>>
    /\ Top(frames).kind = "repeat"
    /\ LET f == Top(frames) IN
       IF f.cur < f.lim
       THEN Finish("repeat_iter", heap,
                   Append([frames EXCEPT ![Len(frames)].cur = @ + 1], ProcFrame(f.ref)),
                   operand_stack, dictionary_stack, "none")
       ELSE Finish("repeat_end", heap, Front(frames), operand_stack, dictionary_stack, "none")

_op_loop ==
    \E k \in Slots :
    /\ Invokes(k, "loop")
    /\ LET m == _pop_procedure(Machine(operand_stack)) IN
       IF m.exc # "none" THEN Raises("loop", m.os, m.exc)
       ELSE Finish("loop", heap, Append(Advance, Frame("loop", m.got[1].i)),
                   m.os, dictionary_stack, "none")

\* one turn of `while True`
LoopIter ==
    /\ outcome = "running"
    /\ frames # <<>>
    /\ Top(frames).kind = "loop"
    /\ Finish("loop_iter", heap, Append(frames, ProcFrame(Top(frames).ref)),
              operand_stack, dictionary_stack, "none")

_op_exit ==
    \E k \in Slots :
    /\ Invokes(k, "exit")
    /\ Raises("exit", operand_stack, "ExitException")

\* _op_exec up to its call of _execute_object(obj)
_op_exec ==
    \E k \in Slots :
    /\ Invokes(k, "exec")
    /\ LET m == _pop(Machine(operand_stack)) IN
       IF m.exc # "none" THEN Raises("exec", m.os, m.exc)
       ELSE Finish("exec", heap, Append(Advance, [Frame("exec", 0) EXCEPT !.val = m.got[1]]),
                   m.os, dictionary_stack, "none")

\* _op_stopped up to the call of the procedure in its try block
_op_stopped ==
    \E k \in Slots :
    /\ Invokes(k, "stopped")
    /\ LET m == _pop_procedure(Machine(operand_stack)) IN
       IF m.exc # "none" THEN Raises("stopped", m.os, m.exc)
       ELSE Finish("stopped", heap,
                   Append(Append(Advance, Frame("stopped", m.got[1].i)), ProcFrame(m.got[1].i)),
                   m.os, dictionary_stack, "none")

\* the procedure of _op_stopped has returned: False is appended
StoppedReturn ==
    /\ outcome = "running"
    /\ frames # <<>>
    /\ Top(frames).kind = "stopped"
    /\ Finish("stopped_false", heap, Front(frames), Append(operand_stack, Bool(FALSE)),
              dictionary_stack, "none")

_op_stop ==
    \E k \in Slots :
    /\ Invokes(k, "stop")
    /\ Raises("stop", operand_stack, "StopException")

\* ord(char) for the characters the sources use
Ord(c) ==
    CASE c = "a" -> 97
      [] c = "b" -> 98
      [] c = "1" -> 49

\* _op_forall up to its first iteration
_op_forall ==
    \E k \in Slots :
    /\ Invokes(k, "forall")
    /\ LET m == _pop(_pop_procedure(Machine(operand_stack))) IN
       IF m.exc # "none" THEN Raises("forall", m.os, m.exc)
       ELSE LET proc == m.got[1]
                obj == m.got[2]
            IN IF obj.t \notin {"list", "str", "dict"}
               THEN Raises("forall", m.os, "InterpreterError")
               ELSE Finish("forall", heap,
                           Append(Advance, [Frame("forall", proc.i) EXCEPT
                                     !.val = obj,
                                     !.lim = IF obj.t = "dict" THEN Len(heap[obj.i].keys)
                                             ELSE 0]),
                           m.os, dictionary_stack, "none")

\* one turn of the for loop of _op_forall over a list, a str or the items of
\* a dict (whose iterator raises RuntimeError once the dict has changed size)
ForallIter ==
    /\ outcome = "running"
    /\ frames # <<>>
    /\ Top(frames).kind = "forall"
    /\ LET f == Top(frames)
           called == Append([frames EXCEPT ![Len(frames)].pc = @ + 1], ProcFrame(f.ref))
       IN IF f.val.t = "dict" /\ Len(heap[f.val.i].keys) # f.lim
          THEN Finish("forall_iter", heap, frames, operand_stack, dictionary_stack,
                      "RuntimeError")
          ELSE IF f.val.t = "list" /\ f.pc < Len(heap[f.val.i].vals)
          THEN Finish("forall_iter", heap, called,
                      Append(operand_stack, heap[f.val.i].vals[f.pc + 1]),
                      dictionary_stack, "none")
          ELSE IF f.val.t = "str" /\ f.pc < Len(f.val.s)
          THEN Finish("forall_iter", heap, called,
                      Append(operand_stack, Integer(Ord(SubSeq(f.val.s, f.pc + 1, f.pc + 1)))),
                      dictionary_stack, "none")
          ELSE IF f.val.t = "dict" /\ f.pc < Len(heap[f.val.i].keys)
          THEN Finish("forall_iter", heap, called,
                      Append(Append(operand_stack, heap[f.val.i].keys[f.pc + 1]),
                             heap[f.val.i].vals[f.pc + 1]),
                      dictionary_stack, "none")
          ELSE Finish("forall_end", heap, Front(frames), operand_stack, dictionary_stack,
                      "none")

---------------------------------------------------------------------------
(* Stack, comparison, array and conversion operators.                      *)

Mark(r) == [t |-> "mark", i |-> r, s |-> ""]
MarkObj == [kind |-> "mark", index |-> NoIndex, keys |-> <<>>, vals |-> <<>>]

\* a faulty variant of _op_dup: a list on top is duplicated as a new list of
\* the same elements
_op_dup_copy ==
    \E k \in Slots :
    /\ Invokes(k, "dup")
    /\ IF Len(operand_stack) < 1 THEN Raises("dup", operand_stack, "InterpreterError")
       ELSE IF Top(operand_stack).t = "list"
       THEN Finish("dup", Append(heap, heap[Top(operand_stack).i]), Advance,
                   Append(operand_stack, List(Len(heap) + 1)), dictionary_stack, "none")
       ELSE Returns("dup", Append(operand_stack, Top(operand_stack)))

_op_dup ==
    \E k \in Slots :
    /\ Invokes(k, "dup")
    /\ IF Len(operand_stack) < 1 THEN Raises("dup", operand_stack, "InterpreterError")
       ELSE Returns("dup", Append(operand_stack, Top(operand_stack)))

\* a faulty variant of PyEq: only numbers and strings are ever equal
PyEqScalars(h, a, b) ==
    \/ IsNumber(a) /\ IsNumber(b) /\ a.i = b.i
    \/ a.t = "str" /\ a = b

\* Python's a == b: numbers by value, str and the name dataclasses by their
\* text, a Procedure by its body, lists and dicts by their contents, a Mark,
\* a bound method and None by identity
RECURSIVE PyEq(_, _, _)
PyEq(h, a, b) ==
    IF a = b THEN TRUE
    ELSE IF IsNumber(a) /\ IsNumber(b) THEN a.i = b.i
    ELSE IF a.t = b.t /\ a.t \in {"list", "Procedure"}
    THEN /\ Len(h[a.i].vals) = Len(h[b.i].vals)
         /\ \A j \in 1..Len(h[a.i].vals) : PyEq(h, h[a.i].vals[j], h[b.i].vals[j])
    ELSE IF a.t = "dict" /\ b.t = "dict"
    THEN /\ Len(h[a.i].keys) = Len(h[b.i].keys)
         /\ \A j \in 1..Len(h[a.i].keys) :
               /\ KeyIndex(h[b.i], h[a.i].keys[j]) # 0
               /\ PyEq(h, h[a.i].vals[j], h[b.i].vals[KeyIndex(h[b.i], h[a.i].keys[j])])
    ELSE FALSE

_op_eq ==
    \E k \in Slots :
    /\ Invokes(k, "eq")
    /\ LET m == _pop(_pop(Machine(operand_stack))) IN
       IF m.exc # "none" THEN Raises("eq", m.os, m.exc)
       ELSE Returns("eq", Append(m.os, Bool(PyEq(heap, m.got[2], m.got[1]))))

_op_ne ==
    \E k \in Slots :
    /\ Invokes(k, "ne")
    /\ LET m == _pop(_pop(Machine(operand_stack))) IN
       IF m.exc # "none" THEN Raises("ne", m.os, m.exc)
       ELSE Returns("ne", Append(m.os, Bool(~PyEq(heap, m.got[2], m.got[1]))))

\* Python's ordering of two str: by the code of the first character that
\* differs, a proper prefix first
RECURSIVE StrCmp(_, _)
StrCmp(x, y) ==
    IF x = y THEN "eq"
    ELSE IF Len(x) = 0 THEN "lt"
    ELSE IF Len(y) = 0 THEN "gt"
    ELSE IF Ord(SubSeq(x, 1, 1)) < Ord(SubSeq(y, 1, 1)) THEN "lt"
    ELSE IF Ord(SubSeq(x, 1, 1)) > Ord(SubSeq(y, 1, 1)) THEN "gt"
    ELSE StrCmp(SubSeq(x, 2, Len(x)), SubSeq(y, 2, Len(y)))

\* Python's ordering of a and b: numbers (a bool is one) by value, str by
\* text, lists by the first pair of unequal elements and then by length;
\* every other pair of types has no ordering and raises TypeError
RECURSIVE PyCmp(_, _, _)
PyCmp(h, a, b) ==
    IF IsNumber(a) /\ IsNumber(b)
    THEN IF a.i < b.i THEN "lt" ELSE IF a.i = b.i THEN "eq" ELSE "gt"
    ELSE IF a.t = "str" /\ b.t = "str" THEN StrCmp(a.s, b.s)
    ELSE IF a.t = "list" /\ b.t = "list"
    THEN LET x == h[a.i].vals
             y == h[b.i].vals
             unequal == {j \in 1..Len(x) : j <= Len(y) /\ ~PyEq(h, x[j], y[j])}
         IN IF unequal # {}
            THEN LET j == CHOOSE j \in unequal : \A l \in unequal : j <= l
                 IN PyCmp(h, x[j], y[j])
            ELSE IF Len(x) < Len(y) THEN "lt" ELSE IF Len(x) = Len(y) THEN "eq" ELSE "gt"
    ELSE "TypeError"

\* b = self._pop(); a = self._pop(); push of the comparison of a with b,
\* which holds for the orderings in accepted
Comparison(op, accepted) ==
    \E k \in Slots :
    /\ Invokes(k, op)
    /\ LET m == _pop(_pop(Machine(operand_stack))) IN
       IF m.exc # "none" THEN Raises(op, m.os, m.exc)
       ELSE LET c == PyCmp(heap, m.got[2], m.got[1])
            IN IF c = "TypeError" THEN Raises(op, m.os, "TypeError")
               ELSE Returns(op, Append(m.os, Bool(c \in accepted)))

_op_lt == Comparison("lt", {"lt"})

_op_le == Comparison("le", {"lt", "eq"})

_op_gt == Comparison("gt", {"gt"})

_op_ge == Comparison("ge", {"gt", "eq"})

\* Python's a & b, a | b and a ^ b on ints of any sign (two's complement
\* of unbounded width), bit by bit from the lowest
RECURSIVE BitAnd(_, _)
BitAnd(a, b) ==
    IF a = 0 \/ b = 0 THEN 0
    ELSE IF a = -1 THEN b
    ELSE IF b = -1 THEN a
    ELSE 2 * BitAnd(FloorDiv(a, 2), FloorDiv(b, 2)) + PyMod(a, 2) * PyMod(b, 2)

RECURSIVE BitOr(_, _)
BitOr(a, b) ==
    IF a = 0 THEN b
    ELSE IF b = 0 THEN a
    ELSE IF a = -1 \/ b = -1 THEN -1
    ELSE 2 * BitOr(FloorDiv(a, 2), FloorDiv(b, 2))
            + (IF PyMod(a, 2) = 1 \/ PyMod(b, 2) = 1 THEN 1 ELSE 0)

RECURSIVE BitXor(_, _)
BitXor(a, b) ==
    IF a = 0 THEN b
    ELSE IF b = 0 THEN a
    ELSE IF a = -1 THEN -b - 1
    ELSE IF b = -1 THEN -a - 1
    ELSE 2 * BitXor(FloorDiv(a, 2), FloorDiv(b, 2))
            + (IF PyMod(a, 2) # PyMod(b, 2) THEN 1 ELSE 0)

\* isinstance(a, int): a bool passes it
IsPyInt(v) == v.t \in {"int", "bool"}

_op_and ==
    \E k \in Slots :
    /\ Invokes(k, "and")
    /\ LET m == _pop(_pop(Machine(operand_stack))) IN
       IF m.exc # "none" THEN Raises("and", m.os, m.exc)
       ELSE LET b == m.got[1]
                a == m.got[2]
            IN IF IsBool(a) /\ IsBool(b)
               THEN Returns("and", Append(m.os, Bool(a.i = 1 /\ b.i = 1)))
               ELSE IF IsPyInt(a) /\ IsPyInt(b)
               THEN Returns("and", Append(m.os, Integer(BitAnd(a.i, b.i))))
               ELSE Raises("and", m.os, "InterpreterError")

_op_or ==
    \E k \in Slots :
    /\ Invokes(k, "or")
    /\ LET m == _pop(_pop(Machine(operand_stack))) IN
       IF m.exc # "none" THEN Raises("or", m.os, m.exc)
       ELSE LET b == m.got[1]
                a == m.got[2]
            IN IF IsBool(a) /\ IsBool(b)
               THEN Returns("or", Append(m.os, Bool(a.i = 1 \/ b.i = 1)))
               ELSE IF IsPyInt(a) /\ IsPyInt(b)
               THEN Returns("or", Append(m.os, Integer(BitOr(a.i, b.i))))
               ELSE Raises("or", m.os, "InterpreterError")

_op_xor ==
    \E k \in Slots :
    /\ Invokes(k, "xor")
    /\ LET m == _pop(_pop(Machine(operand_stack))) IN
       IF m.exc # "none" THEN Raises("xor", m.os, m.exc)
       ELSE LET b == m.got[1]
                a == m.got[2]
            IN IF IsBool(a) /\ IsBool(b)
               THEN Returns("xor", Append(m.os, Bool(a.i # b.i)))
               ELSE IF IsPyInt(a) /\ IsPyInt(b)
               THEN Returns("xor", Append(m.os, Integer(BitXor(a.i, b.i))))
               ELSE Raises("xor", m.os, "InterpreterError")

_op_mark ==
    \E k \in Slots :
    /\ Invokes(k, "mark")
    /\ Finish("mark", Append(heap, MarkObj), Advance,
              Append(operand_stack, Mark(Len(heap) + 1)), dictionary_stack, "none")

_op_load ==
    \E k \in Slots :
    /\ Invokes(k, "load")
    /\ LET m == _pop_literal_name(Machine(operand_stack)) IN
       IF m.exc # "none" THEN Raises("load", m.os, m.exc)
       ELSE LET value == _lookup(heap, dictionary_stack, m.got[1].s) IN
            IF value = None THEN Raises("load", m.os, "InterpreterError")
            ELSE Returns("load", Append(m.os, value))

_op_array ==
    \E k \in Slots :
    /\ Invokes(k, "array")
    /\ LET m == _pop_int(Machine(operand_stack)) IN
       IF m.exc # "none" THEN Raises("array", m.os, m.exc)
       ELSE LET n == m.got[1].i IN
            IF n < 0 THEN Raises("array", m.os, "InterpreterError")
            ELSE Finish("array", Append(heap, ListObj([j \in 1..n |-> None])), Advance,
                        Append(m.os, List(Len(heap) + 1)), dictionary_stack, "none")

_op_get ==
    \E k \in Slots :
    /\ Invokes(k, "get")
    /\ LET m == _pop(_pop(Machine(operand_stack))) IN
       IF m.exc # "none" THEN Raises("get", m.os, m.exc)
       ELSE LET index == m.got[1]
                obj == m.got[2]
            IN IF obj.t = "list"
               THEN IF ~IsNumber(index) THEN Raises("get", m.os, "InterpreterError")
                    ELSE IF index.i < 0 \/ index.i >= Len(heap[obj.i].vals)
                    THEN Raises("get", m.os, "InterpreterError")
                    ELSE Returns("get", Append(m.os, heap[obj.i].vals[index.i + 1]))
               ELSE IF obj.t = "str"
               THEN IF ~IsNumber(index) THEN Raises("get", m.os, "InterpreterError")
                    ELSE IF index.i < 0 \/ index.i >= Len(obj.s)
                    THEN Raises("get", m.os, "InterpreterError")
                    ELSE Returns("get", Append(m.os,
                            Integer(Ord(SubSeq(obj.s, index.i + 1, index.i + 1)))))
               ELSE IF obj.t = "dict"
               THEN IF ~Hashable(index) THEN Raises("get", m.os, "TypeError")
                    ELSE IF KeyIndex(heap[obj.i], index) = 0
                    THEN Raises("get", m.os, "KeyError")
                    ELSE Returns("get", Append(m.os,
                            heap[obj.i].vals[KeyIndex(heap[obj.i], index)]))
               ELSE Raises("get", m.os, "InterpreterError")

Min(a, b) == IF a < b THEN a ELSE b
Max(a, b) == IF a > b THEN a ELSE b

\* the bounds Python gives the slice [start:stop] of a sequence of length n,
\* for start >= 0: a negative stop counts from the end
SliceLo(n, start) == Min(start, n)
SliceHi(n, stop) == IF stop < 0 THEN Max(stop + n, 0) ELSE Min(stop, n)

_op_getinterval ==
    \E k \in Slots :
    /\ Invokes(k, "getinterval")
    /\ LET m == _pop(_pop_int(_pop_int(Machine(operand_stack)))) IN
       IF m.exc # "none" THEN Raises("getinterval", m.os, m.exc)
       ELSE LET count == m.got[1].i
                index == m.got[2].i
                obj == m.got[3]
                n == IF obj.t = "list" THEN Len(heap[obj.i].vals) ELSE Len(obj.s)
                lo == SliceLo(n, index)
                hi == SliceHi(n, index + count)
            IN IF obj.t \notin {"list", "str"}
               THEN Raises("getinterval", m.os, "InterpreterError")
               ELSE IF index < 0 \/ index + count > n
               THEN Raises("getinterval", m.os, "InterpreterError")
               ELSE IF obj.t = "list"
               THEN Finish("getinterval",
                           Append(heap, ListObj(IF hi <= lo THEN <<>>
                                                ELSE SubSeq(heap[obj.i].vals, lo + 1, hi))),
                           Advance, Append(m.os, List(Len(heap) + 1)),
                           dictionary_stack, "none")
               ELSE Returns("getinterval",
                            Append(m.os, Str(IF hi <= lo THEN ""
                                             ELSE SubSeq(obj.s, lo + 1, hi))))

_op_aload ==
    \E k \in Slots :
    /\ Invokes(k, "aload")
    /\ LET m == _pop(Machine(operand_stack)) IN
       IF m.exc # "none" THEN Raises("aload", m.os, m.exc)
       ELSE LET arr == m.got[1] IN
            IF arr.t # "list" THEN Raises("aload", m.os, "InterpreterError")
            ELSE Returns("aload", Append(m.os \o heap[arr.i].vals, arr))

\* a faulty variant of AstoreItems: the operands in the order they are popped
AstoreItemsPopOrder(os, n) == [j \in 1..n |-> os[Len(os) - j + 1]]

\* the top n operands as the loop of _op_astore leaves them in arr[0..n-1]
AstoreItems(os, n) == SubSeq(os, Len(os) - n + 1, Len(os))

_op_astore ==
    \E k \in Slots :
    /\ Invokes(k, "astore")
    /\ LET m == _pop(Machine(operand_stack)) IN
       IF m.exc # "none" THEN Raises("astore", m.os, m.exc)
       ELSE LET arr == m.got[1]
                n == Len(heap[arr.i].vals)
            IN IF arr.t # "list" THEN Raises("astore", m.os, "InterpreterError")
               ELSE IF Len(m.os) < n THEN Raises("astore", m.os, "InterpreterError")
               ELSE Finish("astore", [heap EXCEPT ![arr.i].vals = AstoreItems(m.os, n)],
                           Advance, Append(SubSeq(m.os, 1, Len(m.os) - n), arr),
                           dictionary_stack, "none")

_op_cvx ==
    \E k \in Slots :
    /\ Invokes(k, "cvx")
    /\ LET m == _pop(Machine(operand_stack)) IN
       IF m.exc # "none" THEN Raises("cvx", m.os, m.exc)
       ELSE LET obj == m.got[1] IN
            Returns("cvx", Append(m.os,
                IF obj.t = "LiteralName" THEN ExecutableName(obj.s)
                ELSE IF obj.t = "list" THEN Procedure(obj.i)
                ELSE obj))

\* a faulty variant of _op_cvlit: the body of a Procedure is pushed as a new
\* list of the same elements
_op_cvlit_copy ==
    \E k \in Slots :
    /\ Invokes(k, "cvlit")
    /\ LET m == _pop(Machine(operand_stack)) IN
       IF m.exc # "none" THEN Raises("cvlit", m.os, m.exc)
       ELSE LET obj == m.got[1] IN
            IF obj.t = "Procedure"
            THEN Finish("cvlit", Append(heap, heap[obj.i]), Advance,
                        Append(m.os, List(Len(heap) + 1)), dictionary_stack, "none")
            ELSE Returns("cvlit", Append(m.os,
                    IF obj.t = "ExecutableName" THEN LiteralName(obj.s) ELSE obj))

_op_cvlit ==
    \E k \in Slots :
    /\ Invokes(k, "cvlit")
    /\ LET m == _pop(Machine(operand_stack)) IN
       IF m.exc # "none" THEN Raises("cvlit", m.os, m.exc)
       ELSE LET obj == m.got[1] IN
            Returns("cvlit", Append(m.os,
                IF obj.t = "ExecutableName" THEN LiteralName(obj.s)
                ELSE IF obj.t = "Procedure" THEN List(obj.i)
                ELSE obj))

---------------------------------------------------------------------------
(* The lexer.  A source is a sequence of characters; pos counts from 0 as  *)
(* in the code.  A token is its type, the characters of its value, and     *)
(* whether a NUMBER was read with a dot (a float).  Line and column are    *)
(* not modelled.                                                           *)

Token(type, value, real) == [type |-> type, value |-> value, real |-> real]
NoToken == Token("none", <<>>, FALSE)

Whitespace == {" ", "\t", "\n", "\r"}
Delimiters == Whitespace \cup {"(", ")", "{", "}", "[", "]", "<", ">", "/", "%"}
Digits == {"0", "1", "2", "3", "4", "5", "6", "7", "8", "9"}

CharAt(src, p) == src[p + 1]

\* the inner loop of _skip_whitespace_and_comments: up to the next newline
RECURSIVE SkipComment(_, _)
SkipComment(src, p) ==
    IF p < Len(src) /\ CharAt(src, p) # "\n" THEN SkipComment(src, p + 1) ELSE p

RECURSIVE _skip_whitespace_and_comments(_, _)
_skip_whitespace_and_comments(src, p) ==
    IF p >= Len(src) THEN p
    ELSE IF CharAt(src, p) \in Whitespace THEN _skip_whitespace_and_comments(src, p + 1)
    ELSE IF CharAt(src, p) = "%" THEN _skip_whitespace_and_comments(src, SkipComment(src, p))
    ELSE p

\* the position after the name characters that start at p
RECURSIVE _read_name_chars(_, _)
_read_name_chars(src, p) ==
    IF p < Len(src) /\ CharAt(src, p) \notin Delimiters
    THEN _read_name_chars(src, p + 1)
    ELSE p

_read_name(src, p) ==
    LET e == _read_name_chars(src, p) IN
    [pos |-> e, token |-> Token("NAME", SubSeq(src, p + 1, e), FALSE)]

_read_literal_name(src, p) ==
    LET e == _read_name_chars(src, p + 1) IN
    [pos |-> e, token |-> Token("LITERAL_NAME", SubSeq(src, p + 2, e), FALSE)]

Escape(c) ==
    IF c = "n" THEN "\n"
    ELSE IF c = "r" THEN "\r"
    ELSE IF c = "t" THEN "\t"
    ELSE c

\* the while loop of _read_string, after the opening parenthesis
RECURSIVE StringLoop(_, _, _, _)
StringLoop(src, p, depth, result) ==
    IF ~(p < Len(src) /\ depth > 0) THEN [pos |-> p, depth |-> depth, result |-> result]
    ELSE LET char == CharAt(src, p) IN
         IF char = "(" THEN StringLoop(src, p + 1, depth + 1, Append(result, char))
         ELSE IF char = ")"
         THEN StringLoop(src, p + 1, depth - 1,
                         IF depth - 1 > 0 THEN Append(result, char) ELSE result)
         ELSE IF char = "\\"
         THEN IF p + 1 < Len(src)
              THEN StringLoop(src, p + 2, depth, Append(result, Escape(CharAt(src, p + 1))))
              ELSE StringLoop(src, p + 1, depth, result)
         ELSE StringLoop(src, p + 1, depth, Append(result, char))

_read_string(src, p) ==
    LET r == StringLoop(src, p + 1, 1, <<>>) IN
    IF r.depth # 0 THEN [pos |-> r.pos, token |-> Token("LexerError", <<>>, FALSE)]
    ELSE [pos |-> r.pos, token |-> Token("STRING", r.result, FALSE)]

\* the digits-and-dot loop of _read_number_or_name
RECURSIVE NumberLoop(_, _, _, _)
NumberLoop(src, p, has_dot, has_digit) ==
    IF p >= Len(src) THEN [pos |-> p, has_dot |-> has_dot, has_digit |-> has_digit]
    ELSE IF CharAt(src, p) \in Digits THEN NumberLoop(src, p + 1, has_dot, TRUE)
    ELSE IF CharAt(src, p) = "." /\ ~has_dot THEN NumberLoop(src, p + 1, TRUE, has_digit)
    ELSE [pos |-> p, has_dot |-> has_dot, has_digit |-> has_digit]

_read_number_or_name(src, p) ==
    LET signed == IF CharAt(src, p) \in {"+", "-"} THEN p + 1 ELSE p
        r == NumberLoop(src, signed, FALSE, FALSE)
    IN IF r.has_digit /\ (r.pos >= Len(src) \/ CharAt(src, r.pos) \in Delimiters)
       THEN [pos |-> r.pos, token |-> Token("NUMBER", SubSeq(src, p + 1, r.pos), r.has_dot)]
       ELSE _read_name(src, p)

\* the single-character tokens
BracketType(c) ==
    IF c = "{" THEN "LBRACE"
    ELSE IF c = "}" THEN "RBRACE"
    ELSE IF c = "[" THEN "LBRACKET"
    ELSE "RBRACKET"

\* tokenize is between two tokens
Lexing ==
    /\ palette \in {"lexer", "source"}
    /\ token.type \notin {"EOF", "LexerError"}
    /\ ntokens < MaxTokens

\* where the next token starts
Start == _skip_whitespace_and_comments(source, pos)

\* tokenize yields token t and is at position p
Yield(t, p) ==
    /\ token' = t
    /\ pos' = p
    /\ ntokens' = IF t.type = "LexerError" THEN ntokens ELSE ntokens + 1
    /\ tokens' = IF t.type = "LexerError" THEN tokens ELSE Append(tokens, t)
    /\ UNCHANGED source
    /\ UNCHANGED interp_vars

\* one iteration of the loop of tokenize, by the branch it takes; a token of
\* one character is yielded and then passed over
TokenizeBracket ==
    /\ Lexing
    /\ Start < Len(source)
    /\ CharAt(source, Start) \in {"{", "}", "[", "]"}
    /\ Yield(Token(BracketType(CharAt(source, Start)), <<CharAt(source, Start)>>, FALSE),
             Start + 1)

TokenizeString ==
    /\ Lexing
    /\ Start < Len(source)
    /\ CharAt(source, Start) = "("
    /\ Yield(_read_string(source, Start).token, _read_string(source, Start).pos)

TokenizeLiteralName ==
    /\ Lexing
    /\ Start < Len(source)
    /\ CharAt(source, Start) = "/"
    /\ Yield(_read_literal_name(source, Start).token, _read_literal_name(source, Start).pos)

TokenizeNumberOrName ==
    /\ Lexing
    /\ Start < Len(source)
    /\ CharAt(source, Start) \in {"-", "+", "."} \cup Digits
    /\ Yield(_read_number_or_name(source, Start).token,
             _read_number_or_name(source, Start).pos)

TokenizeName ==
    /\ Lexing
    /\ Start < Len(source)
    /\ CharAt(source, Start) \notin {"{", "}", "[", "]", "(", "/", "-", "+", "."} \cup Digits
    /\ Yield(_read_name(source, Start).token, _read_name(source, Start).pos)

\* the loop of tokenize is left: EOF is yielded
TokenizeEOF ==
    /\ Lexing
    /\ Start >= Len(source)
    /\ Yield(Token("EOF", <<>>, FALSE), Start)

---------------------------------------------------------------------------
(* The parser.  Parser.tokens is the list of the tokens tokenize yields,   *)
(* Parser.pos counts from 0.  A parsing method gives the position it has   *)
(* reached, the object it returns and the exception it raises.             *)

\* int(num_str) on an optional sign and decimal digits
DigitChars == <<"0", "1", "2", "3", "4", "5", "6", "7", "8", "9">>
DigitValue(c) == (CHOOSE d \in 1..Len(DigitChars) : DigitChars[d] = c) - 1
RECURSIVE DigitsValue(_)
DigitsValue(cs) ==
    IF cs = <<>> THEN 0 ELSE Len(DigitChars) * DigitsValue(Front(cs)) + DigitValue(Top(cs))
ToInt(cs) ==
    IF cs[1] = "-" THEN -DigitsValue(Tail(cs))
    ELSE IF cs[1] = "+" THEN DigitsValue(Tail(cs))
    ELSE DigitsValue(cs)

\* ''.join(result): the str of a sequence of characters
RECURSIVE Text(_)
Text(cs) == IF cs = <<>> THEN "" ELSE cs[1] \o Text(Tail(cs))

\* the value of a NUMBER token read with a dot is a float, kept by its text
PReal(cs) == [t |-> "float", i |-> 0, s |-> Text(cs), body |-> <<>>]

NoObject == [t |-> "None", i |-> 0, s |-> "", body |-> <<>>]
Parsed(p, obj) == [pos |-> p, obj |-> obj, exc |-> "none"]
ParserError(p) == [pos |-> p, obj |-> NoObject, exc |-> "ParserError"]

_is_at_end(toks, p) == toks[p + 1].type = "EOF"

\* a faulty variant of ParseItems: either closer ends the construct
RECURSIVE ParseItemsAnyCloser(_, _, _, _)

RECURSIVE _parse_object(_, _), ParseItems(_, _, _, _)

ParseItemsAnyCloser(toks, p, closer, items) ==
    IF ~_is_at_end(toks, p) /\ toks[p + 1].type \notin {"RBRACE", "RBRACKET"}
    THEN LET r == _parse_object(toks, p) IN
         IF r.exc # "none" THEN r
         ELSE ParseItemsAnyCloser(toks, r.pos, closer,
                                  IF r.obj # NoObject THEN Append(items, r.obj) ELSE items)
    ELSE IF _is_at_end(toks, p) THEN ParserError(p)
    ELSE Parsed(p + 1, items)

\* the while loop of _parse_procedure and of _parse_array and what follows
\* it: the objects up to the closer, which is passed over
ParseItems(toks, p, closer, items) ==
    IF ~_is_at_end(toks, p) /\ toks[p + 1].type # closer
    THEN LET r == _parse_object(toks, p) IN
         IF r.exc # "none" THEN r
         ELSE ParseItems(toks, r.pos, closer,
                         IF r.obj # NoObject THEN Append(items, r.obj) ELSE items)
    ELSE IF _is_at_end(toks, p) THEN ParserError(p)
    ELSE Parsed(p + 1, items)

_parse_procedure(toks, p) ==
    LET r == ParseItems(toks, p + 1, "RBRACE", <<>>) IN
    IF r.exc # "none" THEN r ELSE Parsed(r.pos, PProc(r.obj))

_parse_array(toks, p) ==
    LET r == ParseItems(toks, p + 1, "RBRACKET", <<>>) IN
    IF r.exc # "none" THEN r ELSE Parsed(r.pos, PList(r.obj))

_parse_object(toks, p) ==
    LET tok == toks[p + 1] IN
    CASE tok.type = "NUMBER" ->
            Parsed(p + 1, IF tok.real THEN PReal(tok.value) ELSE PInt(ToInt(tok.value)))
      [] tok.type = "STRING" -> Parsed(p + 1, PStr(Text(tok.value)))
      [] tok.type = "LITERAL_NAME" -> Parsed(p + 1, PLit(Text(tok.value)))
      [] tok.type = "NAME" -> Parsed(p + 1, PName(Text(tok.value)))
      [] tok.type = "LBRACE" -> _parse_procedure(toks, p)
      [] tok.type = "LBRACKET" -> _parse_array(toks, p)
      [] tok.type = "RBRACE" -> ParserError(p)
      [] tok.type = "RBRACKET" -> ParserError(p)
      [] tok.type = "EOF" -> Parsed(p, NoObject)
      [] OTHER -> ParserError(p)

\* the loop of Parser.parse from position p on, result holding the objects
\* parsed so far
RECURSIVE ParseFrom(_, _, _)
ParseFrom(toks, p, result) ==
    IF _is_at_end(toks, p) THEN Parsed(p, result)
    ELSE LET r == _parse_object(toks, p) IN
         IF r.exc # "none" THEN [r EXCEPT !.obj = result]
         ELSE ParseFrom(toks, r.pos, IF r.obj # NoObject THEN Append(result, r.obj) ELSE result)

\* Parser.parse: obj is the list returned, or what was parsed when it raised
parse(toks) == ParseFrom(toks, 0, <<>>)

\* Parser(tokens).parse() returns the list of objects
ParseReturns ==
    /\ palette = "parser"
    /\ outcome = "idle"
    /\ parse(tokens).exc = "none"
    /\ program' = parse(tokens).obj
    /\ outcome' = "ok"
    /\ last' = [op |-> "parse", exc |-> "none"]
    /\ UNCHANGED <<operand_stack, dictionary_stack, heap, frames, palette, nobjects>>
    /\ UNCHANGED lexer_vars

\* Parser(tokens).parse() raises ParserError
ParseRaises ==
    /\ palette = "parser"
    /\ outcome = "idle"
    /\ parse(tokens).exc = "ParserError"
    /\ outcome' = "ParserError"
    /\ last' = [op |-> "parse", exc |-> "ParserError"]
    /\ UNCHANGED <<operand_stack, dictionary_stack, heap, frames, palette, program, nobjects>>
    /\ UNCHANGED lexer_vars

---------------------------------------------------------------------------
(* run(source) from the text: Parser(source) lexes all of it, parse()      *)
(* parses all of it, and the loop over the objects follows.                *)

\* list(self.lexer.tokenize()) raises LexerError: it leaves Parser(source)
\* and run
RunLexerError ==
    /\ palette = "source"
    /\ outcome = "idle"
    /\ token.type = "LexerError"
    /\ outcome' = "LexerError"
    /\ last' = [op |-> "run", exc |-> "LexerError"]
    /\ UNCHANGED <<operand_stack, dictionary_stack, heap, frames, palette, program, nobjects>>
    /\ UNCHANGED lexer_vars

\* a faulty variant of RunParserError: the numbers parsed before the
\* offending token are on the operand stack when the exception leaves run
RunParserErrorAfterPrefix ==
    /\ palette = "source"
    /\ outcome = "idle"
    /\ token.type = "EOF"
    /\ parse(tokens).exc = "ParserError"
    /\ LET ints == SelectSeq(parse(tokens).obj, LAMBDA a : a.t = "int") IN
       operand_stack' = operand_stack \o [k \in 1..Len(ints) |-> Integer(ints[k].i)]
    /\ outcome' = "ParserError"
    /\ last' = [op |-> "run", exc |-> "ParserError"]
    /\ UNCHANGED <<dictionary_stack, heap, frames, palette, program, nobjects>>
    /\ UNCHANGED lexer_vars

\* parser.parse() raises ParserError: it leaves run
RunParserError ==
    /\ palette = "source"
    /\ outcome = "idle"
    /\ token.type = "EOF"
    /\ parse(tokens).exc = "ParserError"
    /\ outcome' = "ParserError"
    /\ last' = [op |-> "run", exc |-> "ParserError"]
    /\ UNCHANGED <<operand_stack, dictionary_stack, heap, frames, palette, program, nobjects>>
    /\ UNCHANGED lexer_vars

\* objects = parser.parse() has returned: the loop over the objects begins
RunParsed ==
    /\ palette = "source"
    /\ outcome = "idle"
    /\ token.type = "EOF"
    /\ parse(tokens).exc = "none"
    /\ program' = parse(tokens).obj
    /\ palette' = "control"
    /\ outcome' = "running"
    /\ last' = [op |-> "run", exc |-> "none"]
    /\ UNCHANGED <<operand_stack, dictionary_stack, heap, frames, nobjects>>
    /\ UNCHANGED lexer_vars

---------------------------------------------------------------------------
(* What = and == print.                                                    *)

\* the characters of a str
Chars(x) == [j \in 1..Len(x) |-> SubSeq(x, j, j)]

\* str(n) of an int
RECURSIVE DigitsOf(_)
DigitsOf(n) ==
    IF n < Len(DigitChars) THEN <<DigitChars[n + 1]>>
    ELSE Append(DigitsOf(n \div Len(DigitChars)), DigitChars[(n % Len(DigitChars)) + 1])
IntText(n) == IF n < 0 THEN <<"-">> \o DigitsOf(-n) ELSE DigitsOf(n)

\* ' '.join(texts)
RECURSIVE Join(_)
Join(texts) ==
    IF texts = <<>> THEN <<>>
    ELSE IF Len(texts) = 1 THEN texts[1]
    ELSE texts[1] \o <<" ">> \o Join(Tail(texts))

\* Interpreter._format_object on a scalar or a Procedure
_format_object(obj) ==
    CASE obj.t = "bool" -> Chars(IF obj.i = 1 THEN "true" ELSE "false")
      [] obj.t = "LiteralName" -> <<"/">> \o Chars(obj.s)
      [] obj.t = "ExecutableName" -> Chars(obj.s)
      [] obj.t = "Procedure" -> Chars("--nostringval--")
      [] obj.t = "int" -> IntText(obj.i)
      [] obj.t = "str" -> Chars(obj.s)
      [] obj.t = "None" -> Chars("None")

RECURSIVE _format_object_detailed(_, _)
_format_object_detailed(h, obj) ==
    CASE obj.t = "bool" -> Chars(IF obj.i = 1 THEN "true" ELSE "false")
      [] obj.t = "LiteralName" -> <<"/">> \o Chars(obj.s)
      [] obj.t = "ExecutableName" -> Chars(obj.s)
      [] obj.t = "Procedure" ->
            <<"{", " ">>
            \o Join([j \in 1..Len(h[obj.i].vals) |-> _format_object_detailed(h, h[obj.i].vals[j])])
            \o <<" ", "}">>
      [] obj.t = "list" ->
            <<"[", " ">>
            \o Join([j \in 1..Len(h[obj.i].vals) |-> _format_object_detailed(h, h[obj.i].vals[j])])
            \o <<" ", "]">>
      [] obj.t = "dict" -> Chars("-dict-")
      [] obj.t = "mark" -> Chars("-mark-")
      [] obj.t = "int" -> IntText(obj.i)
      [] obj.t = "str" -> Chars(obj.s)
      [] obj.t = "None" -> Chars("None")

---------------------------------------------------------------------------
(* The interpreter after construction (Interpreter.__init__): an empty     *)
(* operand stack, the system dictionary below one empty user dictionary.   *)

Interpreter ==
    /\ operand_stack = <<>>
    /\ heap = <<_init_system_dict, DictObj(<<>>, <<>>)>>
    /\ dictionary_stack = <<SystemDictRef, UserDictRef>>
    /\ frames = <<>>
    /\ outcome = "idle"
    /\ last = [op |-> "init", exc |-> "none"]
    /\ nobjects = 0

NoProgram == program = <<>>

NoLexer ==
    /\ source = <<>>
    /\ pos = 0
    /\ token = NoToken
    /\ ntokens = 0
    /\ tokens = <<>>

InitDict == Interpreter /\ NoProgram /\ NoLexer /\ palette = "dict"

NextDict ==
    \/ Run
    \/ RunReturn
    \/ PushObject
    \/ PushValue
    \/ _op_pop
    \/ _op_add
    \/ _op_def
    \/ _op_store
    \/ _op_begin
    \/ _op_end
    \/ _op_dict
    \/ _op_currentdict
    \/ _op_put

SpecDict == InitDict /\ [][NextDict]_vars

---------------------------------------------------------------------------
(* The engine on sources of procedures and control operators.              *)

LoopOf(kind, body) ==
    CASE kind = "for" -> <<PInt(0), PInt(1), PInt(1), PProc(body), PName("for")>>
      [] kind = "repeat" -> <<PInt(2), PProc(body), PName("repeat")>>
      [] kind = "loop" -> <<PProc(body), PName("loop")>>
      [] kind = "forall" -> <<PList(<<PInt(1), PInt(2)>>), PProc(body), PName("forall")>>

\* the body's disposal of what the loop pushes for each iteration
Drop(kind) == IF kind \in {"for", "forall"} THEN <<PName("pop")>> ELSE <<>>

\* the ways a body comes to execute the operator `name`
Ways == {"direct", "if", "ifelse", "named"}
Via(way, name) ==
    CASE way = "direct" -> <<PName(name)>>
      [] way = "if" -> <<PName("true"), PProc(<<PName(name)>>), PName("if")>>
      [] way = "ifelse" -> <<PName("true"), PProc(<<PName(name)>>), PProc(<<>>),
                             PName("ifelse")>>
      [] way = "named" -> <<PName("x")>>
Prelude(way, name) ==
    IF way = "named" THEN <<PLit("x"), PProc(<<PName(name)>>), PName("def")>> ELSE <<>>

\* a loop in a loop, the inner body exiting; the outer body goes on with 1
NestedPrograms ==
    { Prelude(way, "exit") \o
      LoopOf(outer, Drop(outer) \o LoopOf(inner, Drop(inner) \o Via(way, "exit"))
                    \o <<PInt(1)>>
                    \o (IF outer = "loop" THEN <<PName("exit")>> ELSE <<>>))
      \o <<PInt(2)>> :
      outer \in LoopKinds, inner \in LoopKinds, way \in Ways }

\* bodies in which a stop is executed that no inner stopped catches
StoppingBodies ==
    {Via(way, "stop") \o <<PInt(1)>> : way \in {"direct", "if", "ifelse"}}
    \cup {LoopOf(kind, Drop(kind) \o Via(way, "stop")) \o <<PInt(1)>> :
              kind \in LoopKinds, way \in {"direct", "if"}}
    \cup { <<PProc(<<PName("stop")>>), PName("stopped"), PName("pop"), PName("stop")>>,
           <<PProc(<<>>), PName("stopped"), PName("pop"), PName("stop")>> }

\* bodies that run to completion
CompletingBodies ==
    { <<>>, <<PInt(1)>>, <<PName("true"), PProc(<<PInt(1)>>), PName("if")>>,
      LoopOf("repeat", <<>>),
      <<PProc(<<PName("stop")>>), PName("stopped")>> }

StoppedBodies == StoppingBodies \cup CompletingBodies

\* a stopped in a loop, its procedure exiting
ExitInStoppedPrograms ==
    {LoopOf(kind, Drop(kind) \o <<PProc(Via(way, "exit")), PName("stopped"), PInt(2)>>)
     \o <<PInt(1)>> : kind \in LoopKinds, way \in {"direct", "if"}}

StoppedPrograms ==
    {<<PProc(body), PName("stopped"), PInt(2)>> : body \in StoppedBodies}
    \cup {Prelude("named", "stop") \o <<PProc(Via("named", "stop")), PName("stopped")>>}
    \cup ExitInStoppedPrograms

\* exit and stop where nothing catches them
EscapePrograms ==
    {Prelude(way, name) \o Via(way, name) \o <<PInt(1)>> :
        way \in Ways, name \in {"exit", "stop"}}
    \cup {<<PProc(<<PName("exit")>>), PName("stopped"), PInt(1)>>}
    \cup {LoopOf(kind, Drop(kind) \o <<PName("stop")>>) : kind \in LoopKinds}

ExecOperands ==
    { PProc(<<PInt(1), PInt(2), PName("add")>>), PProc(<<>>), PProc(<<PName("exit")>>),
      PInt(1), PLit("x"), PStr("a"), PList(<<PInt(1)>>), PName("true") }

ExecPrograms ==
    {<<a, PName("exec")>> : a \in ExecOperands}
    \cup {<<PName("exec")>>, <<PName("zz")>>, <<PInt(1), PInt(2), PName("add")>>,
           <<PLit("x"), PProc(<<PInt(1), PInt(2), PName("add")>>), PName("def"), PName("x")>>, <<PInt(1), PName("if")>>,
           <<PName("false"), PProc(<<PInt(1)>>), PName("if")>>,
           <<PName("false"), PProc(<<PInt(1)>>), PProc(<<PInt(2)>>), PName("ifelse")>>,
           <<PStr("ab"), PProc(<<>>), PName("forall")>>,
           <<PInt(1), PProc(<<>>), PName("forall")>>,
           <<PInt(-1), PProc(<<>>), PName("repeat")>>}
    \cup {LoopOf(kind, Drop(kind) \o <<PProc(<<PName("exit")>>), PName("exec"), PInt(1)>>) :
              kind \in LoopKinds}

ForInts == (-MaxInt)..MaxInt
ForProgramOf(initial, inc, lim, body) ==
    <<PInt(initial), PInt(inc), PInt(lim), PProc(body), PName("for"), PInt(1)>>
ForBodies == {<<>>, <<PName("pop")>>, <<PName("exit")>>, <<PName("pop"), PInt(0)>>}
ForPrograms ==
    {ForProgramOf(initial, increment, limit, body) :
        initial \in ForInts, increment \in ForInts, limit \in ForInts, body \in ForBodies}

RepeatCounts == (-1)..MaxInt
RepeatBodies == {<<>>, <<PInt(1)>>, <<PInt(1), PName("pop")>>}
RepeatProgramOf(n, body) == <<PInt(0), PInt(n), PProc(body), PName("repeat"), PInt(2)>>
RepeatPrograms == {RepeatProgramOf(n, body) : n \in RepeatCounts, body \in RepeatBodies}

ControlPrograms ==
    NestedPrograms \cup StoppedPrograms \cup EscapePrograms \cup ExecPrograms
    \cup ForPrograms \cup RepeatPrograms

InitControl ==
    /\ Interpreter
    /\ NoLexer
    /\ palette = "control"
    /\ program \in ControlPrograms

NextControl ==
    \/ Run
    \/ RunReturn
    \/ PushObject
    \/ Undefined
    \/ CallProcedure
    \/ PushValue
    \/ ProcReturn
    \/ _op_pop
    \/ _op_add
    \/ _op_def
    \/ _op_if
    \/ _op_ifelse
    \/ _op_for
    \/ ForIter
    \/ _op_repeat
    \/ RepeatIter
    \/ _op_loop
    \/ LoopIter
    \/ _op_forall
    \/ ForallIter
    \/ _op_exit
    \/ _op_exec
    \/ _op_stopped
    \/ StoppedReturn
    \/ _op_stop

SpecControl == InitControl /\ [][NextControl]_vars

---------------------------------------------------------------------------
(* The lexer on every source of at most MaxSourceLen characters.           *)

Alphabet ==
    {" ", "\n", "a", "1", "+", ".", "(", ")", "<", ">", "[", "]", "{", "}", "/", "%"}

Sources == UNION {[1..n -> Alphabet] : n \in 0..MaxSourceLen}

InitLex ==
    /\ Interpreter
    /\ NoProgram
    /\ palette = "lexer"
    /\ source \in Sources
    /\ pos = 0
    /\ token = NoToken
    /\ ntokens = 0
    /\ tokens = <<>>

NextLex ==
    \/ TokenizeBracket
    \/ TokenizeString
    \/ TokenizeLiteralName
    \/ TokenizeNumberOrName
    \/ TokenizeName
    \/ TokenizeEOF

SpecLex == InitLex /\ [][NextLex]_vars

\* the lists of tokens a lexer can yield for a source of numbers, names,
\* braces and brackets: up to MaxTokens tokens, the last one EOF
EOFToken == Token("EOF", <<>>, FALSE)
ParserTokens ==
    {Token("NUMBER", <<"1">>, FALSE), Token("NAME", <<"a">>, FALSE),
     Token("LBRACE", <<"{">>, FALSE), Token("RBRACE", <<"}">>, FALSE),
     Token("LBRACKET", <<"[">>, FALSE), Token("RBRACKET", <<"]">>, FALSE)}
TokenLists ==
    {Append(ts, EOFToken) : ts \in UNION {[1..n -> ParserTokens] : n \in 0..(MaxTokens - 1)}}

InitParse ==
    /\ Interpreter
    /\ NoProgram
    /\ palette = "parser"
    /\ source = <<>>
    /\ pos = 0
    /\ token = NoToken
    /\ ntokens = 0
    /\ tokens \in TokenLists

NextParse ==
    \/ ParseReturns
    \/ ParseRaises

SpecParse == InitParse /\ [][NextParse]_vars

\* the scalar values = and == are given
Scalars ==
    {Integer(n) : n \in ForInts} \cup {Bool(TRUE), Bool(FALSE)}
    \cup {LiteralName("a"), LiteralName("ab"), LiteralName("add")}
    \cup {Str("ab"), Str("1"), Str(""), Str("a b"), Str("/a")}
PrintedSources ==
    {_format_object(v) : v \in Scalars} \cup {_format_object_detailed(<<>>, v) : v \in Scalars}

\* sources with text no lexer or parser accepts after objects that execute,
\* and sources that execute to their end or to an InterpreterError
FailingSources ==
    {Chars("1 }"), Chars("1 ("), Chars("1 2 add ]"), Chars("1 { 2"), Chars("1 [ 2 }"),
     Chars("1 pop (a"), Chars("true }"), Chars("]"), Chars("(")}
RunningSources == {Chars("1 2 add"), Chars("(a) /b"), Chars("a 1"), Chars("{ 1 }"), Chars("[ 2 ]")}
RunSources == PrintedSources \cup FailingSources \cup RunningSources

\* the interpreter before the call: new, after `2`, after `2 1 dict begin`
PriorStates ==
    {[os |-> <<>>, heap |-> <<_init_system_dict, DictObj(<<>>, <<>>)>>,
      ds |-> <<SystemDictRef, UserDictRef>>],
     [os |-> <<Integer(2)>>, heap |-> <<_init_system_dict, DictObj(<<>>, <<>>)>>,
      ds |-> <<SystemDictRef, UserDictRef>>],
     [os |-> <<Integer(2)>>,
      heap |-> <<_init_system_dict, DictObj(<<>>, <<>>), DictObj(<<>>, <<>>)>>,
      ds |-> <<SystemDictRef, UserDictRef, 3>>]}

InitRun ==
    /\ \E prior \in PriorStates :
          /\ operand_stack = prior.os
          /\ heap = prior.heap
          /\ dictionary_stack = prior.ds
    /\ frames = <<>>
    /\ outcome = "idle"
    /\ last = [op |-> "init", exc |-> "none"]
    /\ nobjects = 0
    /\ NoProgram
    /\ palette = "source"
    /\ source \in RunSources
    /\ pos = 0
    /\ token = NoToken
    /\ ntokens = 0
    /\ tokens = <<>>

NextRun ==
    \/ TokenizeBracket
    \/ TokenizeString
    \/ TokenizeLiteralName
    \/ TokenizeNumberOrName
    \/ TokenizeName
    \/ TokenizeEOF
    \/ RunLexerError
    \/ RunParserError
    \/ RunParsed
    \/ Run
    \/ RunReturn
    \/ PushObject
    \/ PushValue
    \/ Undefined
    \/ _op_add

SpecRun == InitRun /\ [][NextRun]_vars

---------------------------------------------------------------------------
(* Claims.                                                                 *)

\* C1: in every reachable state the dictionary stack has at least 2 entries
\* and its bottommost entry is the system dictionary created at construction;
\* an `end` executed at depth exactly 2 raises InterpreterError and leaves the
\* dictionary stack as it was.
C1_DictStackFloor ==
    /\ [](/\ Len(dictionary_stack) >= 2
          /\ dictionary_stack[1] = SystemDictRef)
    /\ [][(last'.op = "end" /\ Len(dictionary_stack) = 2)
            => /\ last'.exc = "InterpreterError"
               /\ outcome' = "InterpreterError"
               /\ dictionary_stack' = dictionary_stack]_vars

\* an `end` at depth 2 has just failed, after a dictionary was made by `dict`
C1_Witness ==
    /\ last.op = "end"
    /\ last.exc = "InterpreterError"
    /\ Len(dictionary_stack) = 2
    /\ Len(heap) > 2

\* C2: the system dictionary binds every primitive name to its original
\* built-in, whatever def, store, begin, end and put have been executed.
C2_SystemDictIntact ==
    \A k \in 1..Len(SystemNames) :
        _lookup(heap, <<dictionary_stack[1]>>, SystemNames[k]) = SystemBinding(SystemNames[k])

\* C3: every token tokenize yields before EOF consumes at least one
\* character of the source (so that it yields finitely many tokens).
C3_TokenConsumesInput ==
    [][(ntokens' > ntokens /\ token'.type # "EOF") => pos' > pos]_vars

---------------------------------------------------------------------------
(* Control flow.                                                           *)

\* the source has been executed to its end
Completed ==
    /\ nobjects = Len(program)
    /\ frames = <<>>
    /\ outcome \in {"running", "ok"}

\* the innermost active loop construct, 0 when there is none
InnermostOf(fr, kinds) ==
    IF \E j \in 1..Len(fr) : fr[j].kind \in kinds
    THEN CHOOSE j \in 1..Len(fr) :
            /\ fr[j].kind \in kinds
            /\ \A k \in (j + 1)..Len(fr) : fr[k].kind \notin kinds
    ELSE 0

\* what a loop in a loop leaves, the inner loop exited in each of the outer
\* loop's iterations, the outer body leaving 1 each time and the source 2
NestedResult(p) ==
    IF p[Len(p) - 1].s = "loop" THEN <<Integer(1), Integer(2)>>
    ELSE <<Integer(1), Integer(1), Integer(2)>>

\* C4: an exit executed inside nested loops (directly, through if / ifelse or
\* through a named procedure) ends the innermost active loop only: the call
\* stack is cut just below that loop, so that execution resumes after it and
\* every enclosing loop keeps its iteration state; a loop in a loop whose
\* inner body exits therefore runs all the outer iterations
C4_ExitEndsInnermostLoop ==
    /\ [][(last'.op = "exit" /\ InnermostOf(frames, LoopKinds) > 0)
            => /\ frames' = SubSeq(frames, 1, InnermostOf(frames, LoopKinds) - 1)
               /\ operand_stack' = operand_stack
               /\ outcome' = "running"]_vars
    /\ []((program \in NestedPrograms /\ Completed)
            => operand_stack = NestedResult(program))

C4_Witness ==
    /\ program \in NestedPrograms
    /\ last.op = "exit"
    /\ outcome = "running"
    /\ InnermostOf(frames, LoopKinds) > 0
    /\ operand_stack = <<Integer(1)>>

NStopped(fr) == Cardinality({j \in 1..Len(fr) : fr[j].kind = "stopped"})

StoppedProgramOf(body) == <<PProc(body), PName("stopped"), PInt(2)>>

\* C5: stopped pushes exactly one Boolean when its procedure ends: true when
\* a stop was executed in it, which the innermost enclosing stopped catches
\* whatever loops lie in between, and false when the procedure completed
C5_StoppedPushesOneBoolean ==
    /\ [][(last'.op = "stop" /\ InnermostOf(frames, {"stopped"}) > 0)
            => /\ frames' = SubSeq(frames, 1, InnermostOf(frames, {"stopped"}) - 1)
               /\ operand_stack' = Append(operand_stack, Bool(TRUE))
               /\ outcome' = "running"]_vars
    /\ [][(NStopped(frames') < NStopped(frames) /\ last'.exc = "none")
            => /\ NStopped(frames') = NStopped(frames) - 1
               /\ operand_stack' = Append(operand_stack, Bool(FALSE))]_vars
    /\ [](\A body \in StoppedBodies :
            (program = StoppedProgramOf(body) /\ Completed)
            => /\ Len(operand_stack) >= 2
               /\ operand_stack[Len(operand_stack)] = Integer(2)
               /\ operand_stack[Len(operand_stack) - 1] = Bool(body \in StoppingBodies)
               /\ \A j \in 1..(Len(operand_stack) - 2) :
                     operand_stack[j].t = "bool" =>
                        body = <<PProc(<<PName("stop")>>), PName("stopped")>>)

C5_Witness ==
    /\ \E kind \in LoopKinds :
          program = StoppedProgramOf(LoopOf(kind, Drop(kind) \o Via("if", "stop"))
                                     \o <<PInt(1)>>)
    /\ last.op = "stop"
    /\ frames = <<>>
    /\ operand_stack = <<Bool(TRUE)>>

\* C6: stopped does not catch exit: an exit executed in the procedure of a
\* stopped that is itself in a loop ends the loop, and the stopped it passes
\* through pushes no Boolean
C6_StoppedLetsExitThrough ==
    /\ [][(/\ last'.op = "exit"
           /\ InnermostOf(frames, LoopKinds) > 0
           /\ InnermostOf(frames, {"stopped"}) > InnermostOf(frames, LoopKinds))
            => /\ Len(frames') < InnermostOf(frames, LoopKinds)
               /\ NStopped(frames') < NStopped(frames)
               /\ operand_stack' = operand_stack]_vars
    /\ []((program \in ExitInStoppedPrograms /\ Completed)
            => operand_stack = <<Integer(1)>>)

C6_Witness ==
    /\ program \in ExitInStoppedPrograms
    /\ last.op = "exit"
    /\ outcome = "running"
    /\ frames = <<>>
    /\ operand_stack = <<>>

\* C7: an exit executed while no loop is active makes run return normally
\* to the host
C7_ExitOutsideLoopReturns == outcome # "ExitException"

\* C8: stop never propagates out of run to the host
C8_StopNeverReachesHost == outcome # "StopException"

\* C9: exec applied to a Procedure executes its body: { 1 2 add } exec
\* leaves 3
C9_ExecRunsProcedure ==
    (program = <<PProc(<<PInt(1), PInt(2), PName("add")>>), PName("exec")>> /\ Completed)
        => operand_stack = <<Integer(3)>>

\* is c within the limit of a for loop of increment inc
WithinLimit(c, inc, lim) == (inc > 0 /\ c <= lim) \/ (inc < 0 /\ c >= lim)

\* the number of values initial, initial + inc, ... that are within lim
Turns(initial, inc, lim) ==
    IF ~WithinLimit(initial, inc, lim) THEN 0
    ELSE IF inc > 0 THEN (lim - initial) \div inc + 1
    ELSE (initial - lim) \div (-inc) + 1

\* C10: for with integer operands and a non-zero increment pops its four
\* operands; its n-th turn pushes c = initial + (n - 1) * increment and calls
\* proc, for as long as c is within the limit, and the loop ends without a
\* further turn at the first c beyond it, at once when initial is beyond it
C10_ForSequence ==
    /\ [][(last'.op = "for" /\ last'.exc = "none")
            => /\ operand_stack' = SubSeq(operand_stack, 1, Len(operand_stack) - 4)
               /\ Top(frames').cur = 0]_vars
    /\ [][(last'.op \in {"for_iter", "for_end"} /\ Top(frames).inc # 0)
            => LET f == Top(frames)
                   c == f.first.i + f.cur * f.inc
               IN IF WithinLimit(c, f.inc, f.lim)
                  THEN /\ last'.op = "for_iter"
                       /\ operand_stack' = Append(operand_stack, Integer(c))
                       /\ Top(frames') = ProcFrame(f.ref)
                       /\ frames'[Len(frames)].cur = f.cur + 1
                  ELSE /\ last'.op = "for_end"
                       /\ operand_stack' = operand_stack
                       /\ frames' = Front(frames)]_vars
    /\ [](\A initial \in ForInts, inc \in ForInts \ {0}, lim \in ForInts :
            (program = ForProgramOf(initial, inc, lim, <<>>) /\ Completed)
            => operand_stack =
                  [n \in 1..Turns(initial, inc, lim) |-> Integer(initial + (n - 1) * inc)]
                  \o <<Integer(1)>>)

C10_Witness ==
    /\ program = ForProgramOf(3, -1, 1, <<>>)
    /\ last.op = "for_end"
    /\ operand_stack = <<Integer(3), Integer(2), Integer(1)>>

\* C11: a for whose increment is 0 keeps iterating, pushing initial and
\* executing proc each time, whatever initial and limit are; only an exit
\* ends it
C11_ForZeroIncrementIterates ==
    [][(last'.op \in {"for_iter", "for_end"} /\ Top(frames).inc = 0)
         => /\ last'.op = "for_iter"
            /\ operand_stack' = Append(operand_stack, Top(frames).first)]_vars

---------------------------------------------------------------------------
(* Integer division.                                                       *)

ArithPrograms ==
    {<<PInt(a), PInt(b), PName(op)>> : a \in ForInts, b \in ForInts, op \in {"idiv", "mod"}}
    \cup {<<PName("true"), PInt(1), PName(op)>> : op \in {"idiv", "mod"}}
    \cup {<<PInt(1), PName(op)>> : op \in {"idiv", "mod"}}

InitArith ==
    /\ Interpreter
    /\ NoLexer
    /\ palette = "control"
    /\ program \in ArithPrograms

NextArith ==
    \/ Run
    \/ RunReturn
    \/ PushObject
    \/ PushValue
    \/ _op_idiv
    \/ _op_mod

SpecArith == InitArith /\ [][NextArith]_vars

\* the int operands a and b of a binary operator about to be invoked
IntOperands ==
    /\ Len(operand_stack) >= 2
    /\ Top(operand_stack).t = "int"
    /\ Top(Front(operand_stack)).t = "int"
OperandA == Top(Front(operand_stack)).i
OperandB == Top(operand_stack).i

\* a / b truncated toward zero
Truncated(a, b) ==
    IF (a >= 0) = (b > 0) THEN Abs(a) \div Abs(b) ELSE -(Abs(a) \div Abs(b))

\* C12: for ints a and b, b # 0, of either sign, `a b idiv` pushes a / b
\* truncated toward zero
C12_IdivTruncates ==
    [][(last'.op = "idiv" /\ IntOperands /\ OperandB # 0)
         => operand_stack' =
               Append(Front(Front(operand_stack)), Integer(Truncated(OperandA, OperandB)))]_vars

\* C13: for ints a and b, b # 0, `a b mod` pushes a - q * b where q is what
\* `a b idiv` pushes for the same operands; with b = 0 idiv and mod both fail
\* with InterpreterError
C13_ModAgreesWithIdiv ==
    /\ [][(last'.op = "mod" /\ IntOperands /\ OperandB # 0)
            => /\ last'.exc = "none"
               /\ operand_stack' =
                     Append(Front(Front(operand_stack)),
                            Integer(OperandA - FloorDiv(OperandA, OperandB) * OperandB))]_vars
    /\ [][(last'.op = "idiv" /\ IntOperands /\ OperandB # 0)
            => /\ last'.exc = "none"
               /\ Top(operand_stack') = Integer(FloorDiv(OperandA, OperandB))]_vars
    /\ [][(last'.op \in {"idiv", "mod"} /\ IntOperands /\ OperandB = 0)
            => /\ last'.exc = "InterpreterError"
               /\ outcome' = "InterpreterError"]_vars

C13_Witness ==
    /\ program = <<PInt(-3), PInt(2), PName("mod")>>
    /\ last.op = "mod"
    /\ operand_stack = <<Integer(1)>>

---------------------------------------------------------------------------
(* Operand stack manipulation.                                             *)

RollBase == <<PInt(1), PInt(2), PInt(3)>>
RollCounts == (-1)..4

\* a roll, and that roll followed by the roll of the opposite amount
RollOnce(n, j) == RollBase \o <<PInt(n), PInt(j), PName("roll")>>
RollTwice(n, j) == RollOnce(n, j) \o <<PInt(n), PInt(-j), PName("roll")>>

\* a roll over more elements than the stack holds, and over as many
RollShort ==
    {below \o <<PInt(n), PInt(j), PName("roll")>> :
        below \in {<<>>, <<PInt(1)>>}, n \in 0..2, j \in {-1, 0, 1}}

RollPrograms ==
    RollShort \cup
    {RollOnce(n, j) : n \in RollCounts, j \in ForInts}
    \cup {RollTwice(n, j) : n \in RollCounts, j \in ForInts}
    \cup {<<PInt(1), PName("true"), PInt(1), PName("roll")>>, <<PInt(1), PName("roll")>>}

InitStack ==
    /\ Interpreter
    /\ NoLexer
    /\ palette = "control"
    /\ program \in RollPrograms

NextStack ==
    \/ Run
    \/ RunReturn
    \/ PushObject
    \/ PushValue
    \/ _op_roll

SpecStack == InitStack /\ [][NextStack]_vars

\* the r in 0..n-1 with j = q * n + r for some integer q
Residue(j, n) == CHOOSE r \in 0..(n - 1) : \E q \in (-Abs(j) - 1)..(Abs(j) + 1) : j = q * n + r

Occurrences(seq, v) == Cardinality({i \in 1..Len(seq) : seq[i] = v})

\* C14: `n j roll` with 0 < n <= depth, the depth taken once n and j are
\* popped, moves the element at place i of the top n to place i + j modulo n
\* (a positive j takes the top elements deeper), whatever the sign of j and
\* also when j is a multiple of n; the elements below the top n stay, every
\* value occurs as often as before, and `n -j roll` after it gives back the
\* original stack
C14_RollRotates ==
    /\ [][(/\ last'.op = "roll"
           /\ IntOperands
           /\ OperandA > 0
           /\ OperandA <= Len(operand_stack) - 2)
            => LET base == Front(Front(operand_stack))
                   n == OperandA
                   below == Len(base) - n
                   r == Residue(OperandB, n)
               IN /\ last'.exc = "none"
                  /\ Len(operand_stack') = Len(base)
                  /\ \A i \in 1..below : operand_stack'[i] = base[i]
                  /\ \A i \in 1..n :
                        operand_stack'[below + ((i - 1 + r) % n) + 1] = base[below + i]
                  /\ \A i \in 1..Len(base) :
                        Occurrences(operand_stack', base[i]) = Occurrences(base, base[i])]_vars
    /\ [](\A n \in 1..3, j \in ForInts :
            (program = RollTwice(n, j) /\ Completed)
            => operand_stack = <<Integer(1), Integer(2), Integer(3)>>)

C14_Witness ==
    /\ program = RollOnce(2, -3)
    /\ last.op = "roll"
    /\ operand_stack = <<Integer(1), Integer(3), Integer(2)>>

---------------------------------------------------------------------------
(* Arrays, conversions and comparison.                                     *)

N(name) == PName(name)

ArrayTrees ==
    { PList(<<>>), PList(<<PInt(1), PInt(2)>>),
      PList(<<PList(<<PInt(1)>>), PLit("x")>>) }
ProcTrees == { PProc(<<>>), PProc(<<PInt(1), PInt(2)>>), PProc(<<PInt(1), N("pop")>>) }
Belows == { <<>>, <<PInt(0)>> }

AloadAstore(below, tree) == below \o <<tree, N("aload"), N("astore")>>
CvxCvlit(tree) == <<tree, N("cvx"), N("cvlit")>>
CvlitCvx(tree) == <<tree, N("cvlit"), N("cvx")>>

\* sources that leave one value of each variant on the operand stack
ValueProducers ==
    { <<PInt(1)>>, <<N("true")>>, <<PStr("a")>>, <<PLit("x")>>, <<PLit("x"), N("cvx")>>,
      <<PList(<<PInt(1), PInt(2)>>)>>, <<PProc(<<PInt(1)>>)>>, <<PInt(1), N("dict")>>,
      <<N("mark")>>, <<PLit("add"), N("load")>>,
      <<PInt(1), N("array"), PInt(0), N("get")>> }
DupEq(producer) == producer \o <<N("dup"), N("eq")>>

\* a put through one reference to an array or a dictionary and a get through
\* another, with what the get is to find
ShareCases ==
    { [prog |-> <<PList(<<PInt(1), PInt(2)>>), N("dup"), PInt(0), PInt(3), N("put"),
                  PInt(0), N("get")>>,
       result |-> <<Integer(3)>>],
      [prog |-> <<PList(<<PInt(1), PInt(2)>>), N("dup"), N("dup"), PInt(1), PInt(3),
                  N("put"), PInt(1), N("get")>>,
       result |-> <<List(3), Integer(3)>>],
      [prog |-> <<PLit("a"), PList(<<PInt(1), PInt(2)>>), N("def"), N("a"), PInt(0), PInt(3),
                  N("put"), N("a"), PInt(0), N("get")>>,
       result |-> <<Integer(3)>>],
      [prog |-> <<PList(<<PList(<<PInt(1)>>), PInt(2)>>), N("dup"), PInt(0), N("get"), PInt(0),
                  PInt(3), N("put"), PInt(0), N("get"), PInt(0), N("get")>>,
       result |-> <<Integer(3)>>],
      [prog |-> <<PInt(1), N("dict"), N("dup"), PInt(1), PInt(2), N("put"), PInt(1),
                  N("get")>>,
       result |-> <<Integer(2)>>],
      [prog |-> <<PLit("d"), PInt(1), N("dict"), N("def"), N("d"), PInt(1), PInt(2), N("put"),
                  N("d"), PInt(1), N("get")>>,
       result |-> <<Integer(2)>>],
      [prog |-> <<N("currentdict"), PInt(1), PInt(2), N("put"), N("currentdict"), PInt(1),
                  N("get")>>,
       result |-> <<Integer(2)>>] }

\* a put into the slice getinterval gives, read back from the source array
SliceThenSource ==
    <<PList(<<PInt(1), PInt(2), PInt(3)>>), N("dup"), PInt(1), PInt(2), N("getinterval"),
      N("dup"), PInt(0), PInt(0), N("put"), N("pop"), PInt(1), N("get")>>
\* a put into the source array, read back from the slice
SourceThenSlice ==
    <<PLit("a"), PList(<<PInt(1), PInt(2), PInt(3)>>), N("def"), N("a"), PInt(1), PInt(2),
      N("getinterval"), N("a"), PInt(1), PInt(0), N("put"), PInt(0), N("get")>>

\* a put of a character code into a string, read back through another
\* reference to the string
StringPut ==
    <<PStr("ab"), N("dup"), PInt(0), PInt(1), N("put"), PInt(0), N("get")>>

\* a dictionary entry written under the name k and read back under k
NameKeyPrograms ==
    { <<PInt(1), N("dict"), N("dup"), PLit("k"), PInt(1), N("put"), PLit("k"), N("get")>>,
      <<PLit("k"), PInt(1), N("def"), N("currentdict"), PLit("k"), N("get")>> }

\* a procedure bound to p, a put into the array cvlit gives for it, a call
BodyPut ==
    <<PLit("p"), PProc(<<PInt(1), PInt(2)>>), N("def"), PLit("p"), N("load"), N("cvlit"),
      PInt(0), PInt(3), N("put"), N("p")>>

\* eq and ne on two composites, distinct objects of equal contents or one
\* object twice
CompositeTrees == {PList(<<PInt(1)>>), PList(<<>>), PProc(<<PInt(1)>>)}
CompositeEq ==
    {<<a, b, N(op)>> : a \in CompositeTrees, b \in CompositeTrees, op \in {"eq", "ne"}}
    \cup {<<a, N("dup"), N(op)>> : a \in CompositeTrees, op \in {"eq", "ne"}}
    \cup {<<PInt(1), N("dict"), PInt(1), N("dict"), N(op)>> : op \in {"eq", "ne"}}

\* get at an index or under a key
GetPrograms ==
    {<<PList(<<PInt(1), PInt(2)>>), PInt(i), N("get")>> : i \in ForInts}
    \cup {<<PStr("ab"), PInt(i), N("get")>> : i \in {-1, 2, 3}}
    \cup {<<PInt(1), N("dict"), key, N("get")>> : key \in {PInt(1), PStr("k"), N("true")}}
    \cup {<<PInt(1), N("dict"), N("dup"), PInt(1), PInt(2), N("put"), key, N("get")>> :
              key \in {PInt(1), PInt(2)}}
    \cup {<<PInt(1), PInt(0), N("get")>>}

\* an ordering operator on two operands of every pair of types
ComparisonOps == {"lt", "le", "gt", "ge"}
CompareOperands ==
    {PInt(1), PInt(2), N("true"), PStr("a"), PStr("ab"), PLit("a"),
     PList(<<PInt(1)>>), PList(<<PInt(2)>>), PProc(<<>>)}
ComparePrograms ==
    {<<a, b, N(op)>> : a \in CompareOperands, b \in CompareOperands, op \in ComparisonOps}
    \cup {<<PInt(1), N("dict"), PInt(1), N("dict"), N(op)>> : op \in ComparisonOps}

\* and, or, xor on Booleans, Integers, one of each, and a string
LogicalOps == {"and", "or", "xor"}
LogicalOperands == {PInt(0), PInt(1), PInt(3), PInt(-2), N("true"), N("false"), PStr("a")}
LogicalPrograms ==
    {<<a, b, N(op)>> : a \in LogicalOperands, b \in LogicalOperands, op \in LogicalOps}

\* a name bound by def to an Integer, to an array, to the element of a new
\* array, then executed and loaded
BoundValues ==
    {<<PInt(5)>>, <<PInt(1), N("array")>>, <<PInt(1), N("array"), PInt(0), N("get")>>,
     <<N("true")>>, <<PStr("a")>>}
BoundNamePrograms ==
    {<<PLit("k")>> \o v \o <<N("def")>> \o use : v \in BoundValues, use \in {<<N("k")>>, <<PLit("k"), N("load")>>}}

DataPrograms ==
    ComparePrograms \cup LogicalPrograms \cup BoundNamePrograms \cup
    {AloadAstore(below, tree) : below \in Belows, tree \in ArrayTrees}
    \cup {StringPut, BodyPut} \cup NameKeyPrograms \cup CompositeEq \cup GetPrograms
    \cup {CvxCvlit(tree) : tree \in ArrayTrees \cup {PLit("x"), PInt(1)}}
    \cup {CvlitCvx(tree) : tree \in ProcTrees \cup {PInt(1)}}
    \cup {DupEq(producer) : producer \in ValueProducers}
    \cup {c.prog : c \in ShareCases}
    \cup {SliceThenSource, SourceThenSlice}
    \cup { <<N("dup")>>, <<N("mark"), N("mark"), N("eq")>>, <<PInt(1), N("true"), N("eq")>>,
           <<PList(<<PInt(1)>>), PList(<<PInt(1)>>), N("eq")>>,
           <<PInt(1), N("dict"), PInt(1), N("dict"), N("eq")>>,
           <<PInt(1), N("aload")>>, <<PList(<<PInt(1)>>), N("astore")>>,
           <<PInt(2), N("array"), N("aload"), N("astore")>>,
           <<PStr("ab"), PInt(0), PInt(1), N("getinterval"), PInt(0), N("get")>>,
           <<PList(<<PInt(1), PInt(2)>>), PInt(0), PInt(-1), N("getinterval")>>,
           <<PInt(1), N("dict"), PInt(1), N("get")>> }

InitData ==
    /\ Interpreter
    /\ NoLexer
    /\ palette = "control"
    /\ program \in DataPrograms

NextData ==
    \/ Run
    \/ RunReturn
    \/ PushObject
    \/ PushValue
    \/ _op_pop
    \/ _op_def
    \/ _op_dict
    \/ _op_currentdict
    \/ _op_put
    \/ _op_dup
    \/ _op_eq
    \/ _op_mark
    \/ _op_load
    \/ _op_array
    \/ _op_get
    \/ _op_getinterval
    \/ _op_aload
    \/ _op_astore
    \/ _op_cvx
    \/ _op_cvlit
    \/ CallProcedure
    \/ ProcReturn
    \/ _op_ne
    \/ _op_lt
    \/ _op_le
    \/ _op_gt
    \/ _op_ge
    \/ _op_and
    \/ _op_or
    \/ _op_xor
    \/ Undefined

SpecData == InitData /\ [][NextData]_vars

\* the heap the constructor leaves
FreshHeap == <<_init_system_dict, DictObj(<<>>, <<>>)>>

\* the operator about to be invoked finds a value of type t on top
TopIs(t) == operand_stack # <<>> /\ Top(operand_stack).t = t

\* C15: `aload astore` on an array a on top of the operand stack leaves the
\* stack as it was: a itself on top, the contents of a and everything else
\* unchanged
C15_AloadAstoreRestores ==
    /\ [][(last'.op = "aload" /\ TopIs("list"))
            => /\ operand_stack' = Append(Front(operand_stack)
                                          \o heap[Top(operand_stack).i].vals,
                                          Top(operand_stack))
               /\ heap' = heap]_vars
    /\ [][(/\ last'.op = "astore"
           /\ TopIs("list")
           /\ Len(heap[Top(operand_stack).i].vals) < Len(operand_stack))
            => LET a == Top(operand_stack)
                   n == Len(heap[a.i].vals)
                   d == Len(operand_stack) - 1
               IN /\ operand_stack' = Append(SubSeq(operand_stack, 1, d - n), a)
                  /\ heap' = [heap EXCEPT ![a.i].vals = SubSeq(operand_stack, d - n + 1, d)]]_vars
    /\ [](\A below \in Belows, tree \in ArrayTrees :
            (program = AloadAstore(below, tree) /\ Completed)
            => /\ operand_stack = BuildAll(FreshHeap, below \o <<tree>>).vals
               /\ heap = BuildAll(FreshHeap, below \o <<tree>>).heap)

C15_Witness ==
    /\ program = AloadAstore(<<PInt(0)>>, PList(<<PInt(1), PInt(2)>>))
    /\ last.op = "astore"
    /\ operand_stack = <<Integer(0), List(3)>>
    /\ heap[3].vals = <<Integer(1), Integer(2)>>

\* C16: `cvx cvlit` on an array leaves that very array object, and
\* `cvlit cvx` on a Procedure leaves a procedure with the body of the original
C16_ConversionsRoundTrip ==
    /\ [][(last'.op = "cvx" /\ TopIs("list"))
            => /\ operand_stack' = Append(Front(operand_stack),
                                          Procedure(Top(operand_stack).i))
               /\ heap' = heap]_vars
    /\ [][(last'.op = "cvlit" /\ TopIs("Procedure"))
            => /\ operand_stack' = Append(Front(operand_stack), List(Top(operand_stack).i))
               /\ heap' = heap]_vars
    /\ [](\A tree \in ArrayTrees :
            (program = CvxCvlit(tree) /\ Completed)
            => /\ operand_stack = <<Build(FreshHeap, tree).val>>
               /\ heap = Build(FreshHeap, tree).heap)
    /\ [](\A tree \in ProcTrees :
            (program = CvlitCvx(tree) /\ Completed)
            => /\ operand_stack = <<Build(FreshHeap, tree).val>>
               /\ heap = Build(FreshHeap, tree).heap)

C16_Witness ==
    /\ program = CvxCvlit(PList(<<PInt(1), PInt(2)>>))
    /\ last.op = "cvlit"
    /\ operand_stack = <<List(3)>>

\* C17: `dup eq` replaces the value on top of the operand stack by true,
\* whichever variant the value is of
C17_DupEqIsTrue ==
    /\ [][(last'.op = "dup" /\ operand_stack # <<>>)
            => /\ operand_stack' = Append(operand_stack, Top(operand_stack))
               /\ heap' = heap]_vars
    /\ [][(/\ last'.op = "eq"
           /\ Len(operand_stack) >= 2
           /\ Top(operand_stack) = Top(Front(operand_stack)))
            => operand_stack' = Append(Front(Front(operand_stack)), Bool(TRUE))]_vars
    /\ [](\A producer \in ValueProducers :
            (program = DupEq(producer) /\ Completed) => operand_stack = <<Bool(TRUE)>>)

C17_Witness ==
    /\ program = DupEq(<<N("mark")>>)
    /\ last.op = "eq"
    /\ operand_stack = <<Bool(TRUE)>>

\* the steps that create a composite object
Creators == {"push", "dict", "array", "getinterval", "mark"}

\* C19: arrays and dictionaries have reference semantics: no operator but
\* those that create an object adds one, a put changes the one object it is
\* given, and so a put through one reference (a dup, a name bound by def, the
\* dictionary stack) is found by a get through any other
C19_ReferenceSemantics ==
    /\ [][last'.op \notin Creators => Len(heap') = Len(heap)]_vars
    /\ [][(last'.op = "put" /\ last'.exc = "none")
            => LET obj == operand_stack[Len(operand_stack) - 2] IN
               /\ obj.t \in {"list", "dict"}
               /\ \A r \in 1..Len(heap) : r # obj.i => heap'[r] = heap[r]
               /\ obj.t = "list" =>
                     heap'[obj.i].vals[operand_stack[Len(operand_stack) - 1].i + 1] =
                        Top(operand_stack)]_vars
    /\ [][(last'.op = "get" /\ last'.exc = "none" /\ Top(Front(operand_stack)).t = "list")
            => Top(operand_stack') =
                  heap[Top(Front(operand_stack)).i].vals[Top(operand_stack).i + 1]]_vars
    /\ [](\A c \in ShareCases :
            (program = c.prog /\ Completed) => operand_stack = c.result)

C19_Witness ==
    /\ program = <<PList(<<PInt(1), PInt(2)>>), N("dup"), PInt(0), PInt(3), N("put"),
                   PInt(0), N("get")>>
    /\ last.op = "get"
    /\ operand_stack = <<Integer(3)>>

\* C20: the array getinterval gives shares its storage with the source
\* array: a put at place i of the slice is found at place start + i of the
\* source, and a put into the source within the range is found in the slice
C20_GetintervalShares ==
    (program \in {SliceThenSource, SourceThenSlice} /\ Completed)
        => operand_stack = <<Integer(0)>>

\* what one execution of a body of RepeatBodies adds to the operand stack
NetOf(body) == IF body = <<PInt(1)>> THEN <<Integer(1)>> ELSE <<>>

RECURSIVE Times(_, _)
Times(n, seq) == IF n = 0 THEN <<>> ELSE Times(n - 1, seq) \o seq

\* C18: `n p repeat` with n >= 0 executes p exactly n times when p does not
\* exit, not at all for n = 0, so that a p without net effect on the operand
\* stack leaves the stack as it was without n and p; with n < 0 it fails with
\* InterpreterError and p is not executed
C18_RepeatExecutesNTimes ==
    /\ [][(last'.op \in {"repeat_iter", "repeat_end"})
            => LET f == Top(frames) IN
               /\ operand_stack' = operand_stack
               /\ IF f.cur < f.lim
                  THEN /\ last'.op = "repeat_iter"
                       /\ Top(frames') = ProcFrame(f.ref)
                       /\ frames'[Len(frames)].cur = f.cur + 1
                  ELSE /\ last'.op = "repeat_end"
                       /\ f.cur = f.lim
                       /\ frames' = Front(frames)]_vars
    /\ [][(last'.op = "repeat" /\ TopIs("Procedure") /\ Len(operand_stack) >= 2
           /\ Top(Front(operand_stack)).t = "int")
            => IF Top(Front(operand_stack)).i < 0
               THEN /\ last'.exc = "InterpreterError"
                    /\ outcome' = "InterpreterError"
                    /\ frames' = <<>>
               ELSE /\ last'.exc = "none"
                    /\ operand_stack' = Front(Front(operand_stack))
                    /\ Top(frames').cur = 0
                    /\ Top(frames').lim = Top(Front(operand_stack)).i]_vars
    /\ [](\A n \in RepeatCounts \ {-1}, body \in RepeatBodies :
            (program = RepeatProgramOf(n, body) /\ Completed)
            => operand_stack = <<Integer(0)>> \o Times(n, NetOf(body)) \o <<Integer(2)>>)

C18_Witness ==
    /\ program = RepeatProgramOf(3, <<PInt(1), PName("pop")>>)
    /\ last.op = "repeat_end"
    /\ frames = <<>>
    /\ operand_stack = <<Integer(0)>>

\* the operator about to be invoked finds obj, index and value on top
PutOperands == Len(operand_stack) >= 3
PutObj == operand_stack[Len(operand_stack) - 2]
PutIndex == operand_stack[Len(operand_stack) - 1]

\* C21: a put on a string with an integer index within the string and an
\* integer character code succeeds and writes the code in place
C21_StringPutWrites ==
    [][(/\ last'.op = "put"
        /\ PutOperands
        /\ PutObj.t = "str"
        /\ PutIndex.t = "int"
        /\ PutIndex.i >= 0
        /\ PutIndex.i < Len(PutObj.s)
        /\ Top(operand_stack).t = "int")
         => /\ last'.exc = "none"
            /\ operand_stack' = SubSeq(operand_stack, 1, Len(operand_stack) - 3)]_vars

\* C22: a dictionary entry written under the name k by put or by def is
\* read back under k: the put and the get with the key /k succeed, and the
\* get pushes the value written
C22_NameKeyReadBack ==
    (program \in NameKeyPrograms /\ last.op \in {"put", "get"})
        => /\ last.exc = "none"
           /\ last.op = "get" => operand_stack = <<Integer(1)>>

\* C23: no operator changes the body of a Procedure: the call of p after a
\* put into the array cvlit gave for p executes the objects parsed for p
C23_ProcedureBodyImmutable ==
    (program = BodyPut /\ Completed) => operand_stack = <<Integer(1), Integer(2)>>

\* C24: eq and ne compare arrays and dictionaries by identity: two distinct
\* objects are not equal whatever their contents, one object is equal to itself
C24_CompositesByIdentity ==
    [][(/\ last'.op \in {"eq", "ne"}
        /\ Len(operand_stack) >= 2
        /\ Top(operand_stack).t \in {"list", "dict"}
        /\ Top(Front(operand_stack)).t = Top(operand_stack).t)
         => Top(operand_stack') =
               Bool((Top(operand_stack).i = Top(Front(operand_stack)).i) = (last'.op = "eq"))]_vars

\* the key k is present in the dictionary d of the heap
HasKey(d, k) == \E j \in 1..Len(heap[d.i].keys) : KeyEq(heap[d.i].keys[j], k)

\* C27: get fails with InterpreterError and pushes nothing when the index
\* is outside [0, length) of an array or a string, and when the key is not in
\* a dictionary
C27_GetFailsOutOfRange ==
    [][(/\ last'.op = "get"
        /\ Len(operand_stack) >= 2
        /\ LET obj == Top(Front(operand_stack))
               index == Top(operand_stack)
           IN \/ /\ obj.t = "list"
                 /\ index.t = "int"
                 /\ (index.i < 0 \/ index.i >= Len(heap[obj.i].vals))
              \/ /\ obj.t = "str"
                 /\ index.t = "int"
                 /\ (index.i < 0 \/ index.i >= Len(obj.s))
              \/ /\ obj.t = "dict"
                 /\ ~HasKey(obj, index))
         => /\ last'.exc = "InterpreterError"
            /\ outcome' = "InterpreterError"
            /\ operand_stack' = Front(Front(operand_stack))]_vars

\* the two operands a binary operator is about to pop
OperandPair == {Top(Front(operand_stack)), Top(operand_stack)}

\* C25: lt, le, gt and ge fail with InterpreterError, pushing nothing, on
\* every pair of operands that is neither two numbers nor two strings
C25_OrderingRejectsMixedTypes ==
    [][(/\ last'.op \in ComparisonOps
        /\ Len(operand_stack) >= 2
        /\ ~(\A v \in OperandPair : v.t = "int")
        /\ ~(\A v \in OperandPair : v.t = "str"))
         => /\ last'.exc = "InterpreterError"
            /\ operand_stack' = Front(Front(operand_stack))]_vars

\* C26: and, or and xor fail with InterpreterError, pushing nothing, on one
\* Boolean and one Integer
C26_LogicalRejectsMixedOperands ==
    [][(/\ last'.op \in LogicalOps
        /\ Len(operand_stack) >= 2
        /\ \E v \in OperandPair : v.t = "bool"
        /\ \E v \in OperandPair : v.t = "int")
         => /\ last'.exc = "InterpreterError"
            /\ operand_stack' = Front(Front(operand_stack))]_vars

---------------------------------------------------------------------------
(* Name resolution and the dictionary stack: sources the host runs from    *)
(* start to end, each with the operand stack the language gives it.        *)

Case(p, r) == [program |-> p, result |-> r]
Begin == <<PInt(1), N("dict"), N("begin")>>
Def(name, tree) == <<PLit(name), tree, N("def")>>
Store(name, tree) == <<PLit(name), tree, N("store")>>
ScopeInts == 1..2

\* a procedure whose body names x, defined after it, redefined between two
\* calls, shadowed in a dictionary pushed later; a procedure naming itself;
\* a procedure whose body names an operator redefined after it
LateBindingCases ==
    {Case(Def("f", PProc(<<N("x")>>)) \o Def("x", PInt(a)) \o <<N("f")>>
             \o Def("x", PInt(b)) \o <<N("f")>>,
          <<Integer(a), Integer(b)>>) : a \in ScopeInts, b \in ScopeInts}
    \cup {Case(Def("f", PProc(<<N("x")>>)) \o Def("x", PInt(a)) \o <<N("f")>> \o Begin
                  \o Def("x", PInt(b)) \o <<N("f"), N("end"), N("f")>>,
               <<Integer(a), Integer(b), Integer(a)>>) : a \in ScopeInts, b \in ScopeInts}
    \cup {Case(Def("f", PProc(<<PProc(<<N("false"), N("f"), PInt(a)>>), PProc(<<>>),
                                N("ifelse")>>)) \o <<N("true"), N("f")>>,
               <<Integer(a)>>) : a \in ScopeInts}
    \cup {Case(Def("f", PProc(<<PInt(a), PInt(1), N("add")>>)) \o Def("add", PProc(<<N("pop")>>))
                  \o <<N("f")>>,
               <<Integer(a)>>) : a \in ScopeInts}

\* a procedure called before the name in its body is defined
UnboundCall == Def("f", PProc(<<N("x")>>)) \o <<N("f")>>

\* def of a name the system dictionary binds, at the bottom and in a pushed
\* dictionary; def of a name bound below, in a pushed dictionary
DefCases ==
    {Case(Def("add", PProc(<<N("pop")>>)) \o <<PInt(a), PInt(1), N("add")>>,
          <<Integer(a)>>) : a \in ScopeInts}
    \cup {Case(Begin \o Def("add", PProc(<<N("pop")>>)) \o <<PInt(a), PInt(1), N("add"), N("end"),
                  PInt(a), PInt(1), N("add")>>,
               <<Integer(a), Integer(a + 1)>>) : a \in ScopeInts}
    \cup {Case(Def("x", PInt(a)) \o Begin \o Def("x", PInt(b)) \o <<N("x"), N("end"), N("x")>>,
               <<Integer(b), Integer(a)>>) : a \in ScopeInts, b \in ScopeInts}

\* store of a name bound below the top, bound in the top and below, bound
\* nowhere, bound in the system dictionary
StoreCases ==
    {Case(Def("x", PInt(a)) \o Begin \o Store("x", PInt(b)) \o <<N("x"), N("end"), N("x")>>,
          <<Integer(b), Integer(b)>>) : a \in ScopeInts, b \in ScopeInts}
    \cup {Case(Def("x", PInt(a)) \o Begin \o Def("x", PInt(3)) \o Store("x", PInt(b))
                  \o <<N("x"), N("end"), N("x")>>,
               <<Integer(b), Integer(a)>>) : a \in ScopeInts, b \in ScopeInts}
    \cup {Case(Begin \o Store("y", PInt(a)) \o <<N("y")>>, <<Integer(a)>>) : a \in ScopeInts}
    \cup {Case(Begin \o Store("pop", PInt(a)) \o <<N("end"), N("pop")>>, <<Integer(a)>>) :
             a \in ScopeInts}

\* a source that fails with InterpreterError at one object (an undefined
\* name at top level, in a pushed dictionary, in a procedure body; an operator
\* short of operands, given a wrong type, or with nothing to end), and the
\* source of the run that follows
ErrorCases ==
    {Case(Def("x", PInt(a)) \o Begin \o <<PInt(b), N("nope"), N("x"), N("end"), N("x")>>,
          <<Integer(b), Integer(a), Integer(a)>>) : a \in ScopeInts, b \in ScopeInts}
    \cup {Case(Def("f", PProc(<<PInt(a), N("nope"), PInt(3)>>)) \o <<N("f"), PInt(b)>>,
               <<Integer(a), Integer(b)>>) : a \in ScopeInts, b \in ScopeInts}
    \cup {Case(<<N("pop"), PInt(a)>>, <<Integer(a)>>) : a \in ScopeInts}
    \cup {Case(<<PInt(a), N("end"), PInt(b)>>, <<Integer(a), Integer(b)>>) :
             a \in ScopeInts, b \in ScopeInts}
    \cup {Case(<<PInt(a), PLit("k"), N("add"), PInt(b)>>, <<Integer(a), Integer(b)>>) :
             a \in ScopeInts, b \in ScopeInts}
    \cup {Case(<<PInt(a), N("begin"), PInt(b)>>, <<Integer(b)>>) : a \in ScopeInts, b \in ScopeInts}

ScopePrograms ==
    {c.program : c \in LateBindingCases \cup DefCases \cup StoreCases \cup ErrorCases}
    \cup {UnboundCall}

InitScope ==
    /\ Interpreter
    /\ NoLexer
    /\ palette = "control"
    /\ program \in ScopePrograms

NextScope ==
    \/ Run
    \/ RunReturn
    \/ PushObject
    \/ PushValue
    \/ Undefined
    \/ CallProcedure
    \/ ProcReturn
    \/ _op_def
    \/ _op_store
    \/ _op_begin
    \/ _op_end
    \/ _op_dict
    \/ _op_ifelse
    \/ _op_add
    \/ _op_pop

SpecScope == InitScope /\ [][NextScope]_vars

\* the dictionaries of the dictionary stack (positions, bottom first) that
\* bind the name n, and what the topmost of them binds it to
BindersIn(h, ds, n) ==
    {j \in 1..Len(ds) : \E i \in 1..Len(h[ds[j]].keys) : h[ds[j]].keys[i] = Str(n)}
Binders(n) == BindersIn(heap, dictionary_stack, n)
Bound(cell, n) == cell.vals[CHOOSE i \in 1..Len(cell.keys) : cell.keys[i] = Str(n)]
TopBinderIn(h, ds, n) == CHOOSE j \in BindersIn(h, ds, n) : \A l \in BindersIn(h, ds, n) : l <= j
TopBinder(n) == TopBinderIn(heap, dictionary_stack, n)
BindingIn(h, ds, n) ==
    IF BindersIn(h, ds, n) = {} THEN None ELSE Bound(h[ds[TopBinderIn(h, ds, n)]], n)
CurrentBinding(n) == BindingIn(heap, dictionary_stack, n)

\* the element of the procedure body the next step executes
BodyElement == heap[Top(frames).ref].vals[Top(frames).pc]

\* C28: an executable name in a procedure body is resolved when the body
\* executes it, against the dictionary stack of that moment: the step calls
\* the Procedure, invokes the operator or pushes the value the topmost binder
\* holds then, and fails when there is none; so a def, a begin or an end
\* after the procedure's definition changes what its next call does, and a
\* procedure's reference to its own name recurses
C28_NamesResolvedAtExecution ==
    /\ [][(/\ InProcedure
           /\ outcome = "running"
           /\ BodyElement.t = "ExecutableName"
           /\ vars' # vars)
            => LET b == CurrentBinding(BodyElement.s) IN
               CASE b.t = "Procedure" ->
                       /\ last' = [op |-> "call", exc |-> "none"]
                       /\ Len(frames') = Len(frames) + 1
                       /\ Top(frames') = ProcFrame(b.i)
                 [] b.t = "operator" -> last'.op = b.s
                 [] b.t = "None" ->
                       /\ last' = [op |-> "undefined", exc |-> "InterpreterError"]
                       /\ outcome' = "InterpreterError"
                 [] OTHER ->
                       /\ last' = [op |-> "value", exc |-> "none"]
                       /\ operand_stack' = Append(operand_stack, b)]_vars
    /\ [](\A c \in LateBindingCases :
             (program = c.program /\ Completed) => operand_stack = c.result)

\* a procedure was called three times, the name in its body rebound in a
\* dictionary pushed for the second call only
C28_Witness ==
    \E c \in LateBindingCases :
        /\ program = c.program
        /\ Completed
        /\ Len(c.result) = 3
        /\ c.result[1] # c.result[2]
        /\ operand_stack = c.result

\* the cell after a binding of key n to value v: v under n, every other key
\* as before
Rebound(before, after, n, v) ==
    /\ after.kind = "dict"
    /\ \E i \in 1..Len(after.keys) : after.keys[i] = Str(n)
    /\ Bound(after, n) = v
    /\ \A i \in 1..Len(before.keys) :
          /\ after.keys[i] = before.keys[i]
          /\ before.keys[i] # Str(n) => after.vals[i] = before.vals[i]
    /\ Len(after.keys) = Len(before.keys) + (IF \E i \in 1..Len(before.keys) : before.keys[i] = Str(n)
                                              THEN 0 ELSE 1)

\* the heap after a step that changed the cell `target` at most
OnlyChanged(target) ==
    /\ Len(heap') = Len(heap)
    /\ \A r \in 1..Len(heap) : r # target => heap'[r] = heap[r]

\* C29: def binds the key in the topmost dictionary of the dictionary stack
\* and changes no other dictionary, the system dictionary included; the name
\* then resolves to the new binding, also when it names a primitive; after
\* end has popped the dictionary the earlier binding is visible again
C29_DefBindsInTopOnly ==
    /\ [][(last'.op = "def" /\ last'.exc = "none")
            => LET key == Top(Front(operand_stack)).s
                   value == Top(operand_stack)
                   top == Top(dictionary_stack)
               IN /\ dictionary_stack' = dictionary_stack
                  /\ OnlyChanged(top)
                  /\ top # SystemDictRef
                  /\ heap'[SystemDictRef] = heap[SystemDictRef]
                  /\ Rebound(heap[top], heap'[top], key, value)
                  /\ BindingIn(heap', dictionary_stack', key) = value]_vars
    /\ [](\A c \in DefCases : (program = c.program /\ Completed) => operand_stack = c.result)

\* add was redefined in a pushed dictionary, used there, and used again
\* after end
C29_Witness ==
    \E c \in DefCases :
        /\ program = c.program
        /\ SubSeq(program, 1, 3) = Begin
        /\ Completed
        /\ dictionary_stack = <<SystemDictRef, UserDictRef>>
        /\ heap[SystemDictRef] = _init_system_dict
        /\ operand_stack = c.result

\* C30: store replaces the binding in the topmost dictionary of the
\* dictionary stack that contains the key and changes no other dictionary;
\* when no dictionary of the stack contains the key, it defines the key in
\* the top dictionary
C30_StoreReplacesTopmostBinding ==
    /\ [][(last'.op = "store" /\ last'.exc = "none")
            => LET key == Top(Front(operand_stack)).s
                   value == Top(operand_stack)
                   target == IF Binders(key) = {} THEN Top(dictionary_stack)
                             ELSE dictionary_stack[TopBinder(key)]
               IN /\ dictionary_stack' = dictionary_stack
                  /\ OnlyChanged(target)
                  /\ Rebound(heap[target], heap'[target], key, value)]_vars
    /\ [](\A c \in StoreCases : (program = c.program /\ Completed) => operand_stack = c.result)

\* store in a pushed dictionary replaced the binding of the dictionary
\* below, which is the one seen after end
C30_Witness ==
    \E c \in StoreCases :
        /\ program = c.program
        /\ Completed
        /\ Len(c.result) = 2
        /\ c.result[1] = c.result[2]
        /\ program[2] # program[8]
        /\ operand_stack = c.result

\* C31: a run that fails with InterpreterError leaves the effects of what
\* was executed before the failure in place: the exception leaves run with
\* the dictionary stack and the dictionaries as they are and the operand
\* stack short of the failing operator's popped operands only; the next run
\* starts from exactly that state, and completes
C31_FailedRunKeepsState ==
    /\ [][last'.exc = "InterpreterError"
            => /\ outcome' = "InterpreterError"
               /\ frames' = <<>>
               /\ dictionary_stack' = dictionary_stack
               /\ heap' = heap
               /\ Len(operand_stack') <= Len(operand_stack)
               /\ operand_stack' = SubSeq(operand_stack, 1, Len(operand_stack'))]_vars
    /\ [][last'.op = "run" => UNCHANGED <<operand_stack, dictionary_stack, heap>>]_vars
    /\ [](\A c \in ErrorCases : (program = c.program /\ Completed) => operand_stack = c.result)

\* the run after a failure in a pushed dictionary has completed: the operand
\* pushed before the failure is there, the pushed dictionary was still open
C31_Witness ==
    \E c \in ErrorCases :
        /\ program = c.program
        /\ Len(c.result) = 3
        /\ Completed
        /\ outcome = "ok"
        /\ Len(dictionary_stack) = 2
        /\ operand_stack = c.result

\* C34: roll fails with InterpreterError, its two operands popped, whenever
\* n < 0 or n exceeds the depth left once n and j are popped, for every j,
\* j = 0 included
C34_RollRejectsBadCount ==
    [][(/\ last'.op = "roll"
        /\ Len(operand_stack) >= 2
        /\ Top(operand_stack).t = "int"
        /\ Top(Front(operand_stack)).t = "int"
        /\ LET n == Top(Front(operand_stack)).i
               depth == Len(operand_stack) - 2
           IN n < 0 \/ n > depth)
         => /\ last'.exc = "InterpreterError"
            /\ operand_stack' = Front(Front(operand_stack))]_vars

\* the name the next step executes, at top level or in a procedure body
NextName == IF frames = <<>> THEN program[nobjects + 1].s ELSE BodyElement.s

\* C35: a name that a dictionary of the dictionary stack binds, to whatever
\* value def was given (the element of a new array included), resolves:
\* executing it does not fail as undefined, and load pushes its value
C35_BoundNameResolves ==
    /\ [][last'.op = "undefined" => Binders(NextName) = {}]_vars
    /\ [][(/\ last'.op = "load"
           /\ operand_stack # <<>>
           /\ Top(operand_stack).t = "LiteralName"
           /\ Binders(Top(operand_stack).s) # {})
            => /\ last'.exc = "none"
               /\ operand_stack' =
                     Append(Front(operand_stack), CurrentBinding(Top(operand_stack).s))]_vars

\* the braces and brackets of toks from index k on are properly nested and
\* matched, open holding the constructs open so far, innermost last
RECURSIVE Balanced(_, _, _)
Balanced(toks, k, open) ==
    IF k > Len(toks) \/ toks[k].type = "EOF" THEN open = <<>>
    ELSE IF toks[k].type \in {"LBRACE", "LBRACKET"}
    THEN Balanced(toks, k + 1, Append(open, toks[k].type))
    ELSE IF toks[k].type = "RBRACE"
    THEN open # <<>> /\ Top(open) = "LBRACE" /\ Balanced(toks, k + 1, Front(open))
    ELSE IF toks[k].type = "RBRACKET"
    THEN open # <<>> /\ Top(open) = "LBRACKET" /\ Balanced(toks, k + 1, Front(open))
    ELSE Balanced(toks, k + 1, open)

\* the token types a list of parsed objects was parsed from, in order
RECURSIVE Unparse(_)
Unparse(objs) ==
    IF objs = <<>> THEN <<>>
    ELSE LET a == objs[1]
             first == CASE a.t = "Procedure" -> <<"LBRACE">> \o Unparse(a.body) \o <<"RBRACE">>
                        [] a.t = "list" -> <<"LBRACKET">> \o Unparse(a.body) \o <<"RBRACKET">>
                        [] a.t = "int" -> <<"NUMBER">>
                        [] a.t = "ExecutableName" -> <<"NAME">>
                        [] OTHER -> <<"?">>
         IN first \o Unparse(Tail(objs))

TokenTypes(toks) == [k \in 1..(Len(toks) - 1) |-> toks[k].type]

\* C32: on every list of tokens ending in EOF, Parser.parse returns or
\* raises ParserError; it returns exactly when the braces and brackets are
\* properly nested and matched, and then the objects are those of the tokens
\* in order, each {...} a Procedure and each [...] an array of the parsed
\* objects between them
C32_ParseAcceptsBalanced ==
    /\ [](palette = "parser" => ENABLED (ParseReturns \/ ParseRaises) \/ last.op = "parse")
    /\ [][last'.op = "parse"
            => /\ (last'.exc = "none") = Balanced(tokens, 1, <<>>)
               /\ last'.exc # "none" => (last'.exc = "ParserError" /\ program' = program)
               /\ last'.exc = "none" => Unparse(program') = TokenTypes(tokens)]_vars

\* a procedure holding an array was parsed
C32_Witness ==
    /\ palette = "parser"
    /\ last = [op |-> "parse", exc |-> "none"]
    /\ Len(program) = 1
    /\ program[1].t = "Procedure"
    /\ Len(program[1].body) = 1
    /\ program[1].body[1].t = "list"

\* C33: the text = or == prints for an Integer, a Boolean, a LiteralName or
\* a String, lexed, parsed and executed, leaves on top of the operand stack a
\* value equal to the one printed, of the same variant
C33_ScalarRoundTrip ==
    \A v \in Scalars :
        (/\ source \in {_format_object(v), _format_object_detailed(heap, v)}
         /\ \/ outcome \notin {"idle", "running", "ok"}
            \/ palette = "control" /\ Completed /\ outcome = "ok")
            => /\ outcome = "ok"
               /\ operand_stack # <<>>
               /\ Top(operand_stack) = v

ParseFailed == outcome \in {"LexerError", "ParserError"}

\* C36: run lexes and parses all of the source before it executes any of
\* it: while the source is lexed and parsed the operand stack, the dictionary
\* stack and the dictionaries stay as they were before the call, and a
\* LexerError or a ParserError leaves run with them so, no object executed,
\* whatever executable objects precede the offending text
C36_NothingExecutedOnParseFailure ==
    /\ [][palette = "source" => UNCHANGED <<operand_stack, dictionary_stack, heap, frames, nobjects>>]_vars
    /\ [][ParseFailed' => UNCHANGED <<program, palette>>]_vars
    /\ [](palette = "source" => (nobjects = 0 /\ program = <<>>))
    /\ [](ParseFailed => palette = "source")
    /\ []((token.type = "LexerError" \/ (token.type = "EOF" /\ parse(tokens).exc # "none"))
             => palette = "source")
    /\ [][ParseFailed => UNCHANGED vars]_vars

\* a ParserError after two objects that would have executed, the stacks
\* those of `2 1 dict begin`
C36_Witness ==
    /\ outcome = "ParserError"
    /\ Len(tokens) >= 4
    /\ tokens[1].type = "NUMBER"
    /\ tokens[3].type = "NAME"
    /\ operand_stack = <<Integer(2)>>
    /\ Len(dictionary_stack) = 3

====
